---- MODULE Spec2Model ----
(***************************************************************************)
(* Model of the Nelson-Siegel family fitting engine of rv-curves:          *)
(*   fit/tau_grid.rs   decay grid generation                               *)
(*   fit/fitter.rs     fit_model (robust outer loop, monotonicity          *)
(*                     fallback), fit_once (parallel grid search),         *)
(*                     evaluate_candidate, huber_reweight                  *)
(*   fit/selection.rs  fit_and_select, select_by_bic                       *)
(*                                                                         *)
(* Number representation.  The code computes in f64.  The model computes   *)
(* in exact rationals [n, d] (d > 0, lowest terms); an f64 that may be     *)
(* non-finite is a record [cls, v].  Residuals and tolerances are counted in     *)
(* units of 1e-12 (the floor of the Huber scale), so that the floors of    *)
(* huber_reweight are small integers.  A decay value tau is represented by *)
(* its logarithm in integer grid units (exp is strictly increasing, so     *)
(* order and ratio tests on taus are order and difference tests on their   *)
(* logarithms).  exp/ln/SVD themselves are not computed: what the          *)
(* least-squares solve and predict return for a candidate is an input      *)
(* (the "kernel outcome" of the candidate), drawn from a bounded set.      *)
(***************************************************************************)
EXTENDS Integers, Sequences, FiniteSets, TLC

VARIABLES
    \* ---- inputs of fit_and_select (fixed during a run) ----
    points,             \* &[BondPoint]: sequence of [tenor, y_obs, weight]
    config,             \* &FitConfig (the fields the core reads)
    baseline,           \* Option<&[f64]>: "None" or a sequence
    anchor_baselines,   \* Option<&[f64]>: baseline values at the anchor tenors
    baseline_prior,     \* Option<BaselinePrior> built before the loop
    \* ---- fit_and_select locals ----
    pc,                 \* position in fit_and_select / fit_model
    kinds_left,         \* model_kinds not yet visited by the for loop
    fits,               \* Vec<FitResult>
    skipped,            \* Vec<(ModelKind, String)>
    outcome,            \* Result<FitSelection, AppError> once returned
    \* ---- fit_model locals (one call at a time) ----
    model,              \* ModelKind of the running fit_model call
    tau_grid,           \* &[Vec<f64>] passed to fit_model
    w_base,             \* base weights
    w_work_real,        \* working weights
    monotone_dir,       \* resolved direction
    monotone_dir_work,  \* direction in force (None after the fallback)
    best,               \* Option<Candidate>
    passes,             \* iterations of `for _ in 0..n_refits` completed
    calls,              \* history: the fit_once invocations of this call
    \* ---- fit_once with its parallel candidate evaluation ----
    kernel,             \* kernel outcome of every grid candidate
    slots,              \* per grid index: "todo", "run" or "done" with the result
    workers,            \* per worker thread: 0 (idle) or the index held
    done_order,         \* grid indices in order of completion
    chosen,             \* Result<Candidate, AppError> of fit_once
    \* ---- huber_reweight and select_by_bic called on their own ----
    fn_in,              \* arguments of a function called on its own
    fn_out              \* its result (<<>> before the call)

vars == <<points, config, baseline, anchor_baselines, baseline_prior, pc,
          kinds_left, fits, skipped, outcome,
          model, tau_grid, w_base, w_work_real, monotone_dir,
          monotone_dir_work, best, passes, calls,
          kernel, slots, workers, done_order, chosen, fn_in, fn_out>>

sel_vars == <<points, config, baseline, anchor_baselines, baseline_prior,
              pc, kinds_left, fits, skipped, outcome,
              model, tau_grid, w_base, w_work_real, monotone_dir,
              monotone_dir_work, best, passes, calls>>

par_vars == <<kernel, slots, workers, done_order, chosen>>

fn_vars == <<fn_in, fn_out>>

-----------------------------------------------------------------------------
(* Bounds of the model *)

MaxN == 13          \* largest observation count drawn
MaxIters == 2       \* largest robust_iters drawn
MaxBic == 3         \* BIC values are drawn from 0..MaxBic
MaxThreads == 2     \* worker threads of the parallel grid search
MaxVec == 3         \* longest vector handed to huber_reweight
MaxLog == 6         \* largest logarithm of a tau bound drawn
MaxSteps == 4       \* largest tau step count drawn
MaxTop == 4         \* largest top_n drawn
MaxFiles == 3       \* most CSV files a directory scan returns

(* Program constants *)

MIN_N_BUFFER == 5       \* selection.rs:19
NumSamples == 25        \* fitter.rs:447  (let n = 25usize)
MonoEps == 1000         \* fitter.rs:454  (eps = 1e-9, in units of 1e-12)
MinFactorInv == 1000    \* fitter.rs:504  (min_factor = 1e-3 = 1/1000)
MinScale == 1           \* fitter.rs:501  (floor 1e-12 of the scale, in units of 1e-12)
KFloorInv == 1000000    \* fitter.rs:502  (k.max(1e-6): 1e-6 = 1/1000000)
MadNum == 2000          \* fitter.rs:501  (1/0.6745 = 2000/1349)
MadDen == 1349          \* fitter.rs:501
LnSseFloor == -27631021 \* selection.rs:246  (ln of the floor 1e-12, in units of 1e-6)
BicSlack == 2           \* selection.rs:268

-----------------------------------------------------------------------------
(* Exact rationals *)

(* Euclid's algorithm; the operands are bound (x, y) so that each is        *)
(* evaluated once.                                                          *)
RECURSIVE Gcd(_, _)
Gcd(a, b) ==
    CHOOSE g \in { IF y = 0 THEN x ELSE Gcd(y, x % y) : x \in {a}, y \in {b} } : TRUE

Abs(x) == IF x < 0 THEN -x ELSE x

Rat(n, d) ==
    CHOOSE r \in { [n |-> s * (x \div g), d |-> s * (y \div g)] :
                  x \in {n}, y \in {d}, g \in {Gcd(Abs(n), Abs(d))},
                  s \in {IF d < 0 THEN -1 ELSE 1} } : TRUE

RInt(i) == [n |-> i, d |-> 1]
(* A `let` of the source: value is evaluated once and Body applied to it. *)
LetIn(value, Body(_)) == CHOOSE result \in {Body(bound) : bound \in {value}} : TRUE

(* The operations bind their operands (x, y) so that each is evaluated once. *)
RMul(a, b) ==
    CHOOSE r \in { LET g1 == Gcd(Abs(x.n), y.d)
                      g2 == Gcd(Abs(y.n), x.d)
                  IN  Rat((x.n \div g1) * (y.n \div g2), (x.d \div g2) * (y.d \div g1)) :
                  x \in {a}, y \in {b} } : TRUE
RDiv(a, b) == CHOOSE r \in { RMul(x, Rat(y.d, y.n)) : x \in {a}, y \in {b} } : TRUE
RSub(a, b) ==
    CHOOSE r \in { Rat(x.n * y.d - y.n * x.d, x.d * y.d) : x \in {a}, y \in {b} } : TRUE
RAdd(a, b) ==
    CHOOSE r \in { LET g == Gcd(x.d, y.d)
                  IN  Rat(x.n * (y.d \div g) + y.n * (x.d \div g), x.d * (y.d \div g)) :
                  x \in {a}, y \in {b} } : TRUE
RLeq(a, b) == \E x \in {a}, y \in {b} : x.n * y.d <= y.n * x.d
RLt(a, b) == \E x \in {a}, y \in {b} : x.n * y.d < y.n * x.d
RMax(a, b) == CHOOSE r \in { IF RLt(x, y) THEN y ELSE x : x \in {a}, y \in {b} } : TRUE

(* An f64 that may be non-finite: [cls, v] with cls "fin" (v its value),    *)
(* "nan" or "inf".                                                         *)
Fin(x) == [cls |-> "fin", v |-> x]
NaN == [cls |-> "nan", v |-> 0]
PInf == [cls |-> "inf", v |-> 0]
is_finite(x) == x.cls = "fin"

(* The sum of a sequence of rationals, term by term from the first. *)
RECURSIVE SumUpTo(_, _)
SumUpTo(s, i) == IF i = 0 THEN RInt(0) ELSE RAdd(SumUpTo(s, i - 1), s[i])

SeqSum(s) == SumUpTo(s, Len(s))

-----------------------------------------------------------------------------
(* domain/types.rs: ModelKind *)

ModelKinds == <<"Ns", "Nss", "Nssc">>

beta_len(kind) == CASE kind = "Ns" -> 3 [] kind = "Nss" -> 4 [] kind = "Nssc" -> 5

tau_len(kind) == CASE kind = "Ns" -> 1 [] kind = "Nss" -> 2 [] kind = "Nssc" -> 3

param_count(kind) == beta_len(kind) + tau_len(kind)

-----------------------------------------------------------------------------
(* error.rs: AppError (the exit code; the message is kept as a tag) *)

Err(code, msg) == [ok |-> FALSE, exit_code |-> code, message |-> msg]

-----------------------------------------------------------------------------
(* fit/tau_grid.rs *)

(* A tau-range or ratio setting is a record [cls, log]: cls = "pos" for a   *)
(* positive finite f64, whose logarithm in grid units is log; the other    *)
(* f64 values have cls "zero", "neg", "nan" or "inf".  One grid unit is    *)
(* the spacing of the representable values: two positive values differ     *)
(* when their logarithms differ by a whole unit or more.                    *)
Pos(l) == [cls |-> "pos", log |-> l]
NonPos(c) == [cls |-> c, log |-> 0]
IsPosFinite(x) == x.cls = "pos"

(* The representable value nearest to num / den (num >= 0, den > 0), ties   *)
(* to even: the rounding of (ln_min + step * i).exp() at line 30.           *)
RoundHalfEven(num, den) ==
    LET q == num \div den
        r == num % den
    IN  IF 2 * r < den THEN q
        ELSE IF 2 * r > den THEN q + 1
        ELSE IF q % 2 = 0 THEN q ELSE q + 1

(* log_space that divides the range into `steps` intervals and leaves the   *)
(* last point out (step = range / steps).                                   *)
log_space_excluding_max(min, max, steps) ==
    IF ~(IsPosFinite(min) /\ IsPosFinite(max) /\ max.log > min.log)
    THEN Err(2, "Invalid tau range")
    ELSE IF steps < 2
    THEN Err(2, "Tau steps must be >= 2")
    ELSE [ok |-> TRUE,
          values |-> [i \in 1..steps |->
                        min.log + RoundHalfEven((max.log - min.log) * (i - 1),
                                                steps)]]

(* log_space accepting max = min. *)
log_space_allowing_equal(min, max, steps) ==
    IF ~(IsPosFinite(min) /\ IsPosFinite(max) /\ max.log >= min.log)
    THEN Err(2, "Invalid tau range")
    ELSE IF steps < 2
    THEN Err(2, "Tau steps must be >= 2")
    ELSE [ok |-> TRUE,
          values |-> [i \in 1..steps |->
                        min.log + RoundHalfEven((max.log - min.log) * (i - 1),
                                                steps - 1)]]

(* log_space: steps points with equal spacing of the logarithms,            *)
(* step = (ln_max - ln_min) / (steps - 1), each rounded to a representable  *)
(* value.                                                                   *)
log_space(min, max, steps) ==
    IF ~(IsPosFinite(min) /\ IsPosFinite(max) /\ max.log > min.log)
    THEN Err(2, "Invalid tau range")
    ELSE IF steps < 2
    THEN Err(2, "Tau steps must be >= 2")
    ELSE [ok |-> TRUE,
          values |-> [i \in 1..steps |->
                        min.log + RoundHalfEven((max.log - min.log) * (i - 1),
                                                steps - 1)]]

tau_grid_ns(min, max, steps) ==
    LET r == log_space(min, max, steps)
    IN  IF ~r.ok THEN r
        ELSE [ok |-> TRUE, grid |-> [i \in 1..Len(r.values) |-> <<r.values[i]>>]]

(* No separation beyond the order of the values. *)
RatioFloorNone(min_ratio) == 0

(* min_ratio.max(1.0), as a logarithm: max(log ratio, 0); f64::max returns  *)
(* 1.0 for a NaN.  A ratio of +infinity has no logarithm: see IsInfRatio.   *)
RatioFloor(min_ratio) ==
    IF min_ratio.cls = "pos" /\ min_ratio.log > 0 THEN min_ratio.log ELSE 0

(* The pairs (i, j), i < j, in the order of the nested loops, kept when     *)
(* values[j] >= values[i] * min_ratio.                                      *)
RECURSIVE PairsFrom(_, _, _, _)
PairsFrom(values, ratio, i, j) ==
    IF i > Len(values) THEN <<>>
    ELSE IF j > Len(values) THEN PairsFrom(values, ratio, i + 1, i + 2)
    ELSE (IF values[j] >= values[i] + ratio
          THEN <<(<<values[i], values[j]>>)>> ELSE <<>>)
         \o PairsFrom(values, ratio, i, j + 1)

(* values[i] * min_ratio is +infinity for a ratio of +infinity, and no      *)
(* value is >= +infinity: nothing is pushed.                                *)
IsInfRatio(min_ratio) == min_ratio.cls = "inf"

tau_grid_nss(min, max, steps, min_ratio) ==
    LET r == log_space(min, max, steps)
    IN  IF ~r.ok THEN r
        ELSE [ok |-> TRUE,
              grid |-> IF IsInfRatio(min_ratio) THEN <<>>
                       ELSE PairsFrom(r.values, RatioFloor(min_ratio), 1, 2)]

RECURSIVE TriplesFrom(_, _, _, _, _)
TriplesFrom(values, ratio, i, j, k) ==
    IF i > Len(values) THEN <<>>
    ELSE IF j > Len(values) THEN TriplesFrom(values, ratio, i + 1, i + 2, i + 3)
    ELSE IF k > Len(values) THEN TriplesFrom(values, ratio, i, j + 1, j + 2)
    ELSE (IF values[j] >= values[i] + ratio /\ values[k] >= values[j] + ratio
          THEN <<(<<values[i], values[j], values[k]>>)>> ELSE <<>>)
         \o TriplesFrom(values, ratio, i, j, k + 1)

tau_grid_nssc(min, max, steps, min_ratio) ==
    LET r == log_space(min, max, steps)
    IN  IF ~r.ok THEN r
        ELSE [ok |-> TRUE,
              grid |-> IF IsInfRatio(min_ratio) THEN <<>>
                       ELSE TriplesFrom(r.values, RatioFloor(min_ratio), 1, 2, 3)]

-----------------------------------------------------------------------------
(* Kernel outcomes: what solve_least_squares and predict yield for one tau  *)
(* tuple under the weights of the pass.  solved = FALSE: the solve returned *)
(* None.  Otherwise the betas are known by what predict makes of them: the  *)
(* residual profile (y[i] - predict at the observation tenors) and the      *)
(* shape of the curve on the 25 short-end samples.                          *)

Shapes == {"up", "down", "wig", "dip", "nan"}
Profiles == {"zero", "flat", "mild", "nan"}

(* predict at the sample points u * window, u = i / 24, i = 0..24, in units *)
(* of 1e-12: "up" rises and "down" falls by 2e-9 per sample, "wig" moves by *)
(* exactly 1e-9 up and down, "dip" rises except for a last step down by     *)
(* 1e-9 + 1e-12, "nan" has a non-finite sample in the middle.               *)
Curve(shape) ==
    [i \in 1..NumSamples |->
        CASE shape = "up" -> Fin(2 * MonoEps * i)
          [] shape = "down" -> Fin(-2 * MonoEps * i)
          [] shape = "wig" -> Fin(MonoEps * (i % 2))
          [] shape = "dip" -> IF i < NumSamples THEN Fin(2 * MonoEps * i)
                              ELSE Fin(2 * MonoEps * (i - 1) - MonoEps - 1)
          [] shape = "nan" -> IF i = 13 THEN NaN ELSE Fin(0)]

(* y[i] - predict(tenor[i]) for n observations, in units of 1e-12: "zero"   *)
(* an exact fit, "flat" all 1, "mild" all 1 but a first residual of -4,     *)
(* "nan" a non-finite prediction at the first observation.                  *)
Residuals(profile, n) ==
    [i \in 1..n |->
        CASE profile = "zero" -> Fin(0)
          [] profile = "flat" -> Fin(1)
          [] profile = "mild" -> IF i = 1 THEN Fin(-4) ELSE Fin(1)
          [] profile = "nan" -> IF i = 1 THEN NaN ELSE Fin(1)]

(* predict at the 25 uniform samples over [0, t_max], in units of 1e-12:    *)
(* "up", "wig" and "dip" stay at or above zero, "down" falls below zero,    *)
(* "nan" has a non-finite sample in the middle.                             *)
LongCurve(shape) ==
    [i \in 1..NumSamples |->
        CASE shape = "up" -> Fin(2 * MonoEps * i)
          [] shape = "down" -> Fin(MonoEps * (3 - i))
          [] shape = "wig" -> Fin(MonoEps * (i % 2))
          [] shape = "dip" -> Fin(2 * MonoEps * i)
          [] shape = "nan" -> IF i = 13 THEN NaN ELSE Fin(0)]

NoSolution == [solved |-> FALSE, shape |-> "up", res |-> "zero"]
Solved(shape, profile) == [solved |-> TRUE, shape |-> shape, res |-> profile]

-----------------------------------------------------------------------------
(* fit/fitter.rs *)

NoDir == "None"

(* short_end_window.max(0.0) > 0.0 *)
WindowOpen(window) ==
    \/ window.cls = "inf"
    \/ window.cls = "fin" /\ window.v > 0

RECURSIVE MonotoneScan(_, _, _, _)
MonotoneScan(samples, i, prev, dir) ==
    IF i > NumSamples - 1 THEN FALSE
    ELSE LET yi == samples[i + 1]
         IN  IF ~is_finite(yi) THEN TRUE
             ELSE LET dy == yi.v - prev.v
                  IN  IF dir = "Increasing" /\ dy < -MonoEps THEN TRUE
                      ELSE IF dir = "Decreasing" /\ dy > MonoEps THEN TRUE
                      ELSE MonotoneScan(samples, i + 1, yi, dir)

(* A guardrail that rejects nothing. *)
violates_never(shape, dir, window) == FALSE

violates_short_end_monotone(shape, dir, window) ==
    IF ~WindowOpen(window) THEN FALSE
    ELSE LET samples == Curve(shape)
             prev == samples[1]
         IN  IF ~is_finite(prev) THEN TRUE
             ELSE MonotoneScan(samples, 1, prev, dir)

(* A non-negativity guardrail that rejects nothing. *)
violates_non_negative_never(shape) == FALSE

(* The non-negativity guardrail: y(t) >= 0 must hold at each of the 25      *)
(* samples over [0, t_max].                                                 *)
violates_non_negative(shape) ==
    \E i \in 1..NumSamples :
        ~is_finite(LongCurve(shape)[i]) \/ LongCurve(shape)[i].v < 0

(* The candidates the non-negativity guardrail leaves, when it is enabled:  *)
(* a rejected candidate is dropped like one without a solution.             *)
non_negative_filter(kern, enforce) ==
    [i \in DOMAIN kern |->
        IF enforce /\ kern[i].solved /\ violates_non_negative(kern[i].shape)
        THEN NoSolution ELSE kern[i]]

(* The weighted SSE of lines 332-338: "nan" when a term is non-finite.      *)
WeightedSse(res, w) ==
    IF \E i \in 1..Len(res) : ~is_finite(res[i]) \/ ~is_finite(w[i])
    THEN NaN
    ELSE Fin(SeqSum([i \in 1..Len(res) |->
                        RMul(w[i].v, RInt(res[i].v * res[i].v))]))

None == [some |-> FALSE]
Some(x) == [some |-> TRUE, val |-> x]

(* Every input passes whatever it holds. *)
inputs_pass_always(tenors, y, w) == TRUE

(* Lines 258-267 of evaluate_candidate: the inputs pass the validation, so  *)
(* that the evaluation goes on to build the matrix and to call              *)
(* solve_least_squares.                                                     *)
inputs_pass(tenors, y, w) ==
    /\ ~\E i \in 1..Len(tenors) : ~is_finite(tenors[i]) \/ tenors[i].v <= 0
    /\ ~\E i \in 1..Len(y) : ~is_finite(y[i])
    /\ ~\E i \in 1..Len(w) : ~is_finite(w[i]) \/ ~RLt(RInt(0), w[i].v)

(* A candidate that fails is kept, with an SSE of zero. *)
evaluate_candidate_keeping_failures(oc, tenors, y, w, dir, window) ==
    [some |-> TRUE, val |-> [res |-> oc.res, shape |-> oc.shape, sse |-> RInt(0)]]

(* evaluate_candidate: Option<(betas, sse)>; the betas are carried as the   *)
(* residual profile and the shape they produce.                             *)
evaluate_candidate(oc, tenors, y, w, dir, window) ==
    IF ~inputs_pass(tenors, y, w)
    THEN None
    ELSE IF ~oc.solved
    THEN None
    ELSE IF dir # NoDir /\ violates_short_end_monotone(oc.shape, dir, window)
    THEN None
    ELSE LetIn(WeightedSse(Residuals(oc.res, Len(tenors)), w),
               LAMBDA sse :
                  IF is_finite(sse)
                  THEN Some([res |-> oc.res, shape |-> oc.shape, sse |-> sse.v])
                  ELSE None)

(* The Candidate of grid index idx (1-based position in the tau grid). *)
MkCandidate(idx, taus, ev) ==
    [idx |-> idx, taus |-> taus, res |-> ev.val.res, shape |-> ev.val.shape,
     sse |-> ev.val.sse]

(* Lines 236-241: minimum SSE, ties broken by the original grid index. *)
RECURSIVE PickLoop(_, _, _)
PickLoop(candidates, i, b) ==
    IF i > Len(candidates) THEN b
    ELSE LET c == candidates[i]
         IN  IF RLt(c.sse, b.sse) \/ (c.sse = b.sse /\ c.idx < b.idx)
             THEN PickLoop(candidates, i + 1, c)
             ELSE PickLoop(candidates, i + 1, b)

(* The reduction with `<=` in place of the comparison of line 238: among    *)
(* equal SSEs the last candidate wins.                                      *)
RECURSIVE PickLoopLastTie(_, _, _)
PickLoopLastTie(candidates, i, b) ==
    IF i > Len(candidates) THEN b
    ELSE LET c == candidates[i]
         IN  IF RLeq(c.sse, b.sse)
             THEN PickLoopLastTie(candidates, i + 1, c)
             ELSE PickLoopLastTie(candidates, i + 1, b)

PickBestLastTie(candidates) == PickLoopLastTie(candidates, 2, candidates[1])

PickBest(candidates) == PickLoop(candidates, 2, candidates[1])

(* par_iter().enumerate().filter_map(..).collect(): the surviving           *)
(* candidates in grid order, whatever the order of evaluation.              *)
RECURSIVE CollectFrom(_, _, _)
CollectFrom(grid, evals, i) ==
    IF i > Len(grid) THEN <<>>
    ELSE LetIn(evals[i],
               LAMBDA ev : IF ev.some THEN <<MkCandidate(i, grid[i], ev)>> ELSE <<>>)
         \o CollectFrom(grid, evals, i + 1)

(* The candidates in the order in which their evaluations completed. *)
RECURSIVE CollectInOrder(_, _, _)
CollectInOrder(grid, evals, order) ==
    IF order = <<>> THEN <<>>
    ELSE LET i == Head(order)
         IN  (IF evals[i].some THEN <<MkCandidate(i, grid[i], evals[i])>> ELSE <<>>)
             \o CollectInOrder(grid, evals, Tail(order))

(* The first candidate of minimum SSE in the sequence given. *)
RECURSIVE FirstMinLoop(_, _, _)
FirstMinLoop(candidates, i, b) ==
    IF i > Len(candidates) THEN b
    ELSE IF RLt(candidates[i].sse, b.sse)
    THEN FirstMinLoop(candidates, i + 1, candidates[i])
    ELSE FirstMinLoop(candidates, i + 1, b)

(* fit_once reducing the results as they arrive, without the index in the   *)
(* comparison.                                                              *)
FitOnceJoinArrival(grid, evals, order) ==
    LET candidates == CollectInOrder(grid, evals, order)
    IN  IF candidates = <<>>
        THEN Err(4, "No valid fit candidates")
        ELSE [ok |-> TRUE, val |-> FirstMinLoop(candidates, 2, candidates[1])]

(* fit_once after the parallel map has joined: evals[i] is the result of    *)
(* evaluate_candidate for grid index i, order the order of completion.      *)
FitOnceJoin(grid, evals, order) ==
    LetIn(CollectFrom(grid, evals, 1),
          LAMBDA candidates :
             IF candidates = <<>>
             THEN Err(4, "No valid fit candidates")
             ELSE [ok |-> TRUE, val |-> PickBest(candidates)])

(* fit_once as a function of its arguments. *)
fit_once(grid, kern, tenors, y, w, dir, window) ==
    FitOnceJoin(grid,
                [i \in 1..Len(grid) |->
                    evaluate_candidate(kern[i], tenors, y, w, dir, window)],
                [i \in 1..Len(grid) |-> i])

(* compute_residuals of fitter.rs: the residuals of the candidate's betas. *)
compute_residuals(candidate, n) == Residuals(candidate.res, n)

(* median_mut over finite values (integers here). *)
median_mut(values) ==
    IF values = <<>> THEN None
    ELSE LET sorted == SortSeq(values, LAMBDA a, b : a < b)
             mid == Len(values) \div 2          \* 0-based index
         IN  IF Len(values) % 2 = 1
             THEN Some(RInt(sorted[mid + 1]))
             ELSE Some(Rat(sorted[mid] + sorted[mid + 1], 2))

RECURSIVE FiniteAbs(_)
FiniteAbs(residuals) ==
    IF residuals = <<>> THEN <<>>
    ELSE (IF is_finite(Head(residuals)) THEN <<Abs(Head(residuals).v)>> ELSE <<>>)
         \o FiniteAbs(Tail(residuals))

(* k.max(1e-6) * scale: a rational, or "inf" when k is +infinity. *)
HuberCutoff(residuals, k) ==
    LET m == median_mut(FiniteAbs(residuals))
        mad == IF m.some THEN m.val ELSE RInt(0)
        scale == RMax(RMul(mad, Rat(MadNum, MadDen)), RInt(MinScale))
    IN  IF k.cls = "inf" THEN PInf
        ELSE IF k.cls = "nan" THEN Fin(RMul(Rat(1, KFloorInv), scale))
        ELSE Fin(RMul(RMax(k.v, Rat(1, KFloorInv)), scale))

(* Line 510. *)
HuberFactor(r, cutoff) ==
    IF ~is_finite(r) THEN RInt(1)
    ELSE IF cutoff.cls = "inf" THEN RInt(1)
    ELSE IF RLeq(RInt(Abs(r.v)), cutoff.v) THEN RInt(1)
    ELSE RDiv(cutoff.v, RInt(Abs(r.v)))

(* The reweighting without the floor: w0 * factor. *)
HuberWeightNoFloor(w0, factor) ==
    IF ~is_finite(w0) THEN w0
    ELSE Fin(RMul(w0.v, factor))

(* Line 511: (w0 * factor).max(w0 * min_factor). *)
HuberWeight(w0, factor) ==
    IF ~is_finite(w0) THEN w0
    ELSE Fin(RMax(RMul(w0.v, factor), RMul(w0.v, Rat(1, MinFactorInv))))

(* huber_reweight: lines 496-514; the cutoff is computed once (line 504). *)
huber_reweight(wb, residuals, k) ==
    CHOOSE out \in
        { [i \in 1..Len(wb) |-> HuberWeight(wb[i], HuberFactor(res[i], cutoff))] :
            res \in {residuals}, cutoff \in {HuberCutoff(residuals, k)} } : TRUE

(* Stable insertion sort of (tenor, index) pairs by tenor (sort_by with     *)
(* partial_cmp; the tenors sorted are finite).                              *)
RECURSIVE InsertPair(_, _)
InsertPair(sorted, pr) ==
    IF sorted = <<>> THEN <<pr>>
    ELSE IF pr[1] < Head(sorted)[1] THEN <<pr>> \o sorted
    ELSE <<Head(sorted)>> \o InsertPair(Tail(sorted), pr)

RECURSIVE SortPairs(_)
SortPairs(pairs) ==
    IF pairs = <<>> THEN <<>>
    ELSE InsertPair(SortPairs(SubSeq(pairs, 1, Len(pairs) - 1)), pairs[Len(pairs)])

(* The members of a set of indices, ascending (filter over enumerate). *)
RECURSIVE Ascending(_)
Ascending(S) ==
    IF S = {} THEN <<>>
    ELSE LET m == CHOOSE x \in S : \A z \in S : x <= z
         IN  <<m>> \o Ascending(S \ {m})

(* t <= window for a finite t *)
WithinWindow(t, window) ==
    \/ window.cls = "inf"
    \/ window.cls = "fin" /\ t <= window.v

(* infer_short_end_dir that takes the five shortest tenors whatever the     *)
(* window holds.                                                            *)
infer_short_end_dir_shortest_five(tenors, y, w, window) ==
    LET n == Len(tenors)
        finite == Ascending({i \in 1..n : is_finite(tenors[i])})
        pairs == SortPairs([j \in 1..Len(finite) |-> <<tenors[finite[j]].v, finite[j]>>])
        idx == [j \in 1..(IF Len(pairs) < 5 THEN Len(pairs) ELSE 5) |-> pairs[j][2]]
        used == Ascending({j \in 1..Len(idx) :
                    is_finite(w[idx[j]]) /\ is_finite(y[idx[j]])})
        W(j) == w[idx[used[j]]].v
        T(j) == RInt(tenors[idx[used[j]]].v)
        Y(j) == RInt(y[idx[used[j]]].v)
        sw == SeqSum([j \in 1..Len(used) |-> W(j)])
        st == SeqSum([j \in 1..Len(used) |-> RMul(W(j), T(j))])
        sy == SeqSum([j \in 1..Len(used) |-> RMul(W(j), Y(j))])
    IN  IF Len(idx) < 3 THEN NoDir
        ELSE IF ~RLt(RInt(0), sw) THEN NoDir
        ELSE LET tbar == RDiv(st, sw)
                 ybar == RDiv(sy, sw)
                 cov == SeqSum([j \in 1..Len(used) |->
                            RMul(W(j), RMul(RSub(T(j), tbar), RSub(Y(j), ybar)))])
                 var == SeqSum([j \in 1..Len(used) |->
                            RMul(W(j), RMul(RSub(T(j), tbar), RSub(T(j), tbar)))])
             IN  IF ~RLt(RInt(0), var) THEN NoDir
                 ELSE IF RLeq(RInt(0), cov) THEN "Increasing"
                 ELSE "Decreasing"

infer_short_end_dir(tenors, y, w, window) ==
    LET n == Len(tenors)
        front == Ascending({i \in 1..n :
                    is_finite(tenors[i]) /\ WithinWindow(tenors[i].v, window)})
        finite == Ascending({i \in 1..n : is_finite(tenors[i])})
        pairs == SortPairs([j \in 1..Len(finite) |-> <<tenors[finite[j]].v, finite[j]>>])
        short == [j \in 1..(IF Len(pairs) < 5 THEN Len(pairs) ELSE 5) |-> pairs[j][2]]
        idx == IF Len(front) < 3 THEN short ELSE front
        used == Ascending({j \in 1..Len(idx) :
                    is_finite(w[idx[j]]) /\ is_finite(y[idx[j]])})
        W(j) == w[idx[used[j]]].v
        T(j) == RInt(tenors[idx[used[j]]].v)
        Y(j) == RInt(y[idx[used[j]]].v)
        sw == SeqSum([j \in 1..Len(used) |-> W(j)])
        st == SeqSum([j \in 1..Len(used) |-> RMul(W(j), T(j))])
        sy == SeqSum([j \in 1..Len(used) |-> RMul(W(j), Y(j))])
    IN  IF Len(idx) < 3 THEN NoDir
        ELSE IF ~RLt(RInt(0), sw) THEN NoDir
        ELSE LET tbar == RDiv(st, sw)
                 ybar == RDiv(sy, sw)
                 cov == SeqSum([j \in 1..Len(used) |->
                            RMul(W(j), RMul(RSub(T(j), tbar), RSub(Y(j), ybar)))])
                 var == SeqSum([j \in 1..Len(used) |->
                            RMul(W(j), RMul(RSub(T(j), tbar), RSub(T(j), tbar)))])
             IN  IF ~RLt(RInt(0), var) THEN NoDir      \* var <= 1e-18
                 ELSE IF RLeq(RInt(0), cov) THEN "Increasing"
                 ELSE "Decreasing"

resolve_monotone_dir(mode, tenors, y, w, window) ==
    CASE mode = "None" -> NoDir
      [] mode = "Increasing" -> "Increasing"
      [] mode = "Decreasing" -> "Decreasing"
      [] mode = "Auto" -> infer_short_end_dir(tenors, y, w, window)

(* A single pass whatever the mode. *)
n_refits_single(robust, robust_iters) == 1

(* Lines 120-123.  saturating_add(1) is + 1 below usize::MAX, and the       *)
(* .max(1) changes nothing.                                                 *)
n_refits(robust, robust_iters) ==
    IF robust = "None" THEN 1 ELSE robust_iters + 1

-----------------------------------------------------------------------------
(* report/format.rs *)

(* y_obs - y_fit on finite values. *)
FSub(a, b) == Fin(a.v - b.v)

(* The loop of compute_residuals that leaves out the observations whose     *)
(* prediction is non-finite and returns the rest.                           *)
RECURSIVE ResidualsSkipping(_, _, _)
ResidualsSkipping(pts, y_fits, i) ==
    IF i > Len(pts) THEN <<>>
    ELSE (IF is_finite(y_fits[i])
          THEN <<[point |-> pts[i], y_fit |-> y_fits[i],
                  residual |-> FSub(pts[i].y_obs, y_fits[i])]>>
          ELSE <<>>)
         \o ResidualsSkipping(pts, y_fits, i + 1)

report_compute_residuals_skipping(pts, y_fits) ==
    [ok |-> TRUE, val |-> ResidualsSkipping(pts, y_fits, 1)]

(* The loop of compute_residuals from observation i on, out being the       *)
(* entries pushed so far: lines 23-34.  y_fits[i] is what predict returns   *)
(* for observation i.                                                       *)
RECURSIVE ResidualsLoop(_, _, _, _)
ResidualsLoop(pts, y_fits, i, out) ==
    IF i > Len(pts) THEN [ok |-> TRUE, val |-> out]
    ELSE IF ~is_finite(y_fits[i])
    THEN Err(4, "Non-finite model prediction during residual computation")
    ELSE ResidualsLoop(pts, y_fits, i + 1,
                       Append(out, [point |-> pts[i], y_fit |-> y_fits[i],
                                    residual |-> FSub(pts[i].y_obs, y_fits[i])]))

(* compute_residuals of report/format.rs. *)
report_compute_residuals(pts, y_fits) == ResidualsLoop(pts, y_fits, 1, <<>>)

(* The comparator of the two sorts says Less: b.residual < a.residual for   *)
(* the cheap side (descending), a.residual < b.residual for the rich side.  *)
ComparesLess(a, b, descending) ==
    IF descending THEN a.residual.v > b.residual.v
    ELSE a.residual.v < b.residual.v

(* sort_by is a stable sort: an entry goes before the first entry it        *)
(* compares Less to, and after every entry it compares Equal to.            *)
RECURSIVE InsertStable(_, _, _)
InsertStable(sorted, x, descending) ==
    IF sorted = <<>> THEN <<x>>
    ELSE IF ComparesLess(x, Head(sorted), descending) THEN <<x>> \o sorted
    ELSE <<Head(sorted)>> \o InsertStable(Tail(sorted), x, descending)

RECURSIVE SortLoop(_, _, _, _)
SortLoop(entries, i, sorted, descending) ==
    IF i > Len(entries) THEN sorted
    ELSE SortLoop(entries, i + 1, InsertStable(sorted, entries[i], descending),
                  descending)

sort_by(entries, descending) == SortLoop(entries, 1, <<>>, descending)

(* iter().take(top_n) *)
take(entries, top_n) ==
    SubSeq(entries, 1, IF top_n < Len(entries) THEN top_n ELSE Len(entries))

RECURSIVE Reversed(_)
Reversed(entries) ==
    IF entries = <<>> THEN <<>>
    ELSE Append(Reversed(Tail(entries)), Head(entries))

(* The rich side read off the end of the descending sort. *)
rank_cheap_rich_by_reversal(residuals, top_n) ==
    [cheap |-> take(sort_by(residuals, TRUE), top_n),
     rich |-> take(Reversed(sort_by(residuals, TRUE)), top_n)]

(* rank_cheap_rich: lines 58-69. *)
rank_cheap_rich(residuals, top_n) ==
    [cheap |-> take(sort_by(residuals, TRUE), top_n),
     rich |-> take(sort_by(residuals, FALSE), top_n)]

-----------------------------------------------------------------------------
(* fit/selection.rs *)

(* The orders attempted from the most complex to the simplest. *)
model_kinds_descending(model_spec) ==
    CASE model_spec = "Ns" -> <<"Ns">>
      [] model_spec = "Nss" -> <<"Nss">>
      [] model_spec = "Nssc" -> <<"Nssc">>
      [] model_spec \in {"All", "Auto"} -> <<"Nssc", "Nss", "Ns">>

model_kinds(model_spec) ==
    CASE model_spec = "Ns" -> <<"Ns">>
      [] model_spec = "Nss" -> <<"Nss">>
      [] model_spec = "Nssc" -> <<"Nssc">>
      [] model_spec \in {"All", "Auto"} -> ModelKinds

(* build_anchor_points, lines 181-223 (the sigma settings of the           *)
(* configurations drawn are valid): one anchor per anchor tenor.            *)
build_anchor_points(anchor_base, cfg) ==
    IF ~anchor_base.some THEN [ok |-> TRUE, anchors |-> <<>>]
    ELSE IF Len(anchor_base.val) # Len(cfg.anchor_tenors)
    THEN Err(4, "Anchor baseline length != anchor tenors length")
    ELSE IF \E i \in 1..Len(anchor_base.val) :
                ~(is_finite(anchor_base.val[i]) /\ anchor_base.val[i].v > 0)
    THEN Err(4, "Non-positive anchor baseline value")
    ELSE [ok |-> TRUE,
          anchors |-> [i \in 1..Len(cfg.anchor_tenors) |->
                          [tenor |-> cfg.anchor_tenors[i], y |-> anchor_base.val[i]]]]

(* build_baseline_prior, lines 131-178 (the sigma settings of the           *)
(* configurations drawn are valid).                                         *)
build_baseline_prior(pts, base, anchor_base, cfg) ==
    IF ~base.some THEN [ok |-> TRUE, prior |-> None]
    ELSE IF Len(base.val) # Len(pts)
    THEN Err(4, "Baseline prior length mismatch")
    ELSE IF \E i \in 1..Len(base.val) :
                ~(is_finite(base.val[i]) /\ base.val[i].v > 0)
    THEN Err(4, "Non-positive baseline value in prior")
    ELSE LET built == build_anchor_points(anchor_base, cfg)
         IN  IF ~built.ok THEN built
             ELSE [ok |-> TRUE,
                   prior |-> Some([y |-> base.val, anchors |-> built.anchors])]

TauGridFor(kind, cfg) ==
    CASE kind = "Ns" -> tau_grid_ns(cfg.tau_min, cfg.tau_max, cfg.tau_steps_ns)
      [] kind = "Nss" -> tau_grid_nss(cfg.tau_min, cfg.tau_max, cfg.tau_steps_nss,
                                      cfg.tau_min_ratio)
      [] kind = "Nssc" -> tau_grid_nssc(cfg.tau_min, cfg.tau_max, cfg.tau_steps_nssc,
                                        cfg.tau_min_ratio)

(* The FitResult with the rows of the augmented system counted in n. *)
to_fit_result_counting_prior_rows(fit, n, k, bic_val) ==
    LET rows == IF baseline_prior.some
                THEN Len(baseline_prior.val.y) + Len(baseline_prior.val.anchors)
                ELSE 0
    IN  [name |-> fit.model, idx |-> fit.idx, taus |-> fit.taus, sse |-> fit.sse,
         rmse_sq |-> RDiv(fit.sse, RInt(n + rows)), bic |-> bic_val, n |-> n + rows]

(* to_fit_result; bic(n, sse, k) needs ln and is an input of the model      *)
(* (bic_val), rmse = sqrt(sse / n) is kept as its square.                   *)
to_fit_result(fit, n, k, bic_val) ==
    [name |-> fit.model, idx |-> fit.idx, taus |-> fit.taus, sse |-> fit.sse,
     rmse_sq |-> RDiv(fit.sse, RInt(n)), bic |-> bic_val, n |-> n]

(* f64::ln at the whole numbers 1..20, in units of 1e-6 (rounded to the     *)
(* nearest unit).                                                           *)
LnTable ==
    <<0, 693147, 1098612, 1386294, 1609438, 1791759, 1945910, 2079442,
      2197225, 2302585, 2397895, 2484907, 2564949, 2639057, 2708050,
      2772589, 2833213, 2890372, 2944439, 2995732>>

(* f64::ln of a positive rational of numerator and denominator in 1..20. *)
ln(q) == LnTable[q.n] - LnTable[q.d]

(* bic with the penalty term k * ln(n) left out. *)
bic_without_penalty(n, sse, k) ==
    LetIn(RDiv(sse, RInt(n)),
          LAMBDA sse_per : n * (IF sse_per.n <= 0 THEN LnSseFloor ELSE ln(sse_per)))

(* bic, lines 244-248, in units of 1e-6. sse_per = (sse / n).max(1e-12):    *)
(* the positive values of sse / n drawn are at least 1/20, so the floor     *)
(* applies exactly when sse / n is zero.                                    *)
bic(n, sse, k) ==
    LetIn(RDiv(sse, RInt(n)),
          LAMBDA sse_per :
              n * (IF sse_per.n <= 0 THEN LnSseFloor ELSE ln(sse_per))
                 + k * ln(RInt(n)))

(* select_by_bic, lines 252-257: the first fit of minimum BIC. *)
RECURSIVE MinBicLoop(_, _, _)
MinBicLoop(fs, i, b) ==
    IF i > Len(fs) THEN b
    ELSE IF fs[i].bic < b.bic THEN MinBicLoop(fs, i + 1, fs[i])
    ELSE MinBicLoop(fs, i + 1, b)

(* fits.iter().find(|f| f.model.name == kind) *)
FindKind(fs, kind) ==
    IF \E i \in 1..Len(fs) : fs[i].name = kind
    THEN Some(fs[CHOOSE i \in 1..Len(fs) :
                    fs[i].name = kind /\ \A j \in 1..(i - 1) : fs[j].name # kind])
    ELSE None

(* The scan with a strict comparison against the minimum BIC + 2. *)
RECURSIVE SimplestLoopStrict(_, _, _, _)
SimplestLoopStrict(fs, order, best_bic, fallback) ==
    IF order = <<>> THEN fallback
    ELSE LET f == FindKind(fs, Head(order))
         IN  IF f.some /\ f.val.bic < best_bic + BicSlack
             THEN f.val
             ELSE SimplestLoopStrict(fs, Tail(order), best_bic, fallback)

RECURSIVE SimplestLoop(_, _, _, _)
SimplestLoop(fs, order, best_bic, fallback) ==
    IF order = <<>> THEN fallback
    ELSE LET f == FindKind(fs, Head(order))
         IN  IF f.some /\ f.val.bic <= best_bic + BicSlack
             THEN f.val
             ELSE SimplestLoop(fs, Tail(order), best_bic, fallback)

(* The selection by minimum BIC alone. *)
select_by_min_bic(fs) == MinBicLoop(fs, 2, fs[1])

select_by_bic(fs) ==
    LET b == MinBicLoop(fs, 2, fs[1])
    IN  SimplestLoop(fs, ModelKinds, b.bic, b)

-----------------------------------------------------------------------------
(* Inputs *)

(* Observation sets: n points with tenors 1, 2, .., n years.                *)
(*   "ok"        unit weights, y rising with the tenor                      *)
(*   "mixed"     weights 1 and 2, y falling with the tenor                  *)
(*   "bad_tenor" as "ok" with a first tenor of 0                            *)
(*   "bad_y"     as "ok" with a non-finite second y                         *)
(*   "bad_w"     as "ok" with a third weight of 0                           *)
Flavors == {"ok", "mixed", "bad_tenor", "bad_y", "bad_w"}

MkPoints(n, flavor) ==
    [i \in 1..n |->
        [tenor |-> IF flavor = "bad_tenor" /\ i = 1 THEN Fin(0) ELSE Fin(i),
         y_obs |-> IF flavor = "bad_y" /\ i = 2 THEN NaN
                   ELSE IF flavor = "mixed" THEN Fin(-i) ELSE Fin(i),
         weight |-> IF flavor = "bad_w" /\ i = 3 THEN Fin(RInt(0))
                    ELSE IF flavor = "mixed" THEN Fin(RInt(1 + (i % 2)))
                    ELSE Fin(RInt(1))]]

Tenors(pts) == [i \in 1..Len(pts) |-> pts[i].tenor]
YObs(pts) == [i \in 1..Len(pts) |-> pts[i].y_obs]
Weights(pts) == [i \in 1..Len(pts) |-> pts[i].weight]

(* The observation counts drawn: none, and both sides of the thresholds     *)
(* 9, 11 and 13 of the three orders.                                        *)
NValues == {0, 8, 9, 11} \cup (13..MaxN)

BaseConfig ==
    [model_spec |-> "Auto",
     tau_min |-> Pos(0), tau_max |-> Pos(2),
     tau_steps_ns |-> 3, tau_steps_nss |-> 3, tau_steps_nssc |-> 3,
     tau_min_ratio |-> Pos(1),
     short_end_monotone |-> "None", short_end_window |-> Fin(3),
     robust |-> "None", robust_iters |-> 0, robust_k |-> Fin(Rat(3, 2)),
     enforce_non_negative |-> FALSE,
     anchor_tenors |-> <<Fin(1), Fin(2)>>]

(* Tau settings: the usual range with two NS taus, three NSS pairs and one  *)
(* NSSC triple; a ratio that leaves one NSS pair and no NSSC triple; a      *)
(* ratio that leaves no NSS pair; a ratio below 1; one step for NS; two     *)
(* steps for every order; a tau_min of zero; a non-finite ratio.            *)
TauSettings ==
    { [tau_min |-> Pos(0), ns |-> 2, nss |-> 3, nssc |-> 3, ratio |-> Pos(1)],
      [tau_min |-> Pos(0), ns |-> 3, nss |-> 2, nssc |-> 3, ratio |-> Pos(2)],
      [tau_min |-> Pos(0), ns |-> 2, nss |-> 3, nssc |-> 3, ratio |-> Pos(3)],
      [tau_min |-> Pos(0), ns |-> 2, nss |-> 2, nssc |-> 3, ratio |-> Pos(-1)],
      [tau_min |-> Pos(0), ns |-> 1, nss |-> 3, nssc |-> 3, ratio |-> Pos(1)],
      [tau_min |-> Pos(0), ns |-> 2, nss |-> 2, nssc |-> 2, ratio |-> Pos(1)],
      [tau_min |-> NonPos("zero"), ns |-> 3, nss |-> 3, nssc |-> 3, ratio |-> Pos(1)],
      [tau_min |-> Pos(0), ns |-> 3, nss |-> 3, nssc |-> 3, ratio |-> NonPos("nan")] }

WithTau(cfg, t) ==
    [cfg EXCEPT !.tau_min = t.tau_min, !.tau_steps_ns = t.ns,
                !.tau_steps_nss = t.nss, !.tau_steps_nssc = t.nssc,
                !.tau_min_ratio = t.ratio]

ModelSpecs == {"Auto", "Ns", "Nss", "Nssc", "All"}

RobustSettings ==
    {[robust |-> "None", iters |-> 0], [robust |-> "None", iters |-> MaxIters]}
    \cup {[robust |-> "Huber", iters |-> i] : i \in 0..MaxIters}

MonotoneModes == {"None", "Auto", "Increasing", "Decreasing"}
Windows == {Fin(0), Fin(3)}

(* Baselines for n points: none, one positive value per point, one value    *)
(* too many.                                                                *)
Baselines(n) == {None, Some([i \in 1..n |-> Fin(40)]), Some([i \in 1..(n + 1) |-> Fin(40)])}

(* Baseline values at the two anchor tenors: none, two positive values,    *)
(* one value only, a value of zero.                                         *)
AnchorBaselines ==
    {None, Some(<<Fin(40), Fin(40)>>), Some(<<Fin(40)>>), Some(<<Fin(40), Fin(0)>>)}

(* The runs that vary the selector's inputs, with the fit options at their  *)
(* defaults.                                                                *)
SelectorInputs ==
    { [points |-> MkPoints(n, "ok"), baseline |-> None, anchors |-> None,
       config |-> [WithTau(BaseConfig, t) EXCEPT !.model_spec = ms]] :
        n \in NValues, t \in TauSettings, ms \in ModelSpecs }

(* The runs that vary the baseline. *)
BaselineInputs ==
    { [points |-> MkPoints(n, "ok"), baseline |-> b, anchors |-> a,
       config |-> WithTau(BaseConfig, t)] :
        n \in {8, 13}, b \in Baselines(8) \cup Baselines(13), a \in AnchorBaselines,
        t \in {s \in TauSettings : s.nssc = 2 \/ s.ratio = NonPos("nan")} }

(* The runs that vary the fit options, on nine points and the NS order. *)
FitterInputs ==
    { [points |-> MkPoints(9, fl), baseline |-> None, anchors |-> None,
       config |-> [BaseConfig EXCEPT
                      !.model_spec = "Ns", !.tau_steps_ns = 2,
                      !.short_end_monotone = mono, !.short_end_window = win,
                      !.robust = r.robust, !.robust_iters = r.iters,
                      !.enforce_non_negative = nn]] :
        fl \in Flavors, mono \in MonotoneModes, win \in Windows,
        r \in RobustSettings, nn \in BOOLEAN }

(* The kernel outcomes drawn per candidate. *)
Outcomes ==
    { NoSolution,
      Solved("up", "zero"), Solved("down", "flat"), Solved("wig", "mild"),
      Solved("dip", "flat"), Solved("nan", "flat"), Solved("up", "nan") }

BicValues == {0, MaxBic}

-----------------------------------------------------------------------------
(* The state machine of fit_and_select *)

NoOutcome == [ok |-> FALSE, exit_code |-> 0, message |-> "running"]
NoChosen == [ok |-> FALSE, exit_code |-> 0, message |-> "running"]

ParIdle ==
    /\ kernel = <<>>
    /\ slots = <<>>
    /\ workers = <<>>
    /\ done_order = <<>>
    /\ chosen = NoChosen

FnIdle ==
    /\ fn_in = <<>>
    /\ fn_out = <<>>

InitWith(inputs) ==
    /\ \E inp \in inputs :
          /\ points = inp.points
          /\ config = inp.config
          /\ baseline = inp.baseline
          /\ anchor_baselines = inp.anchors
    /\ baseline_prior = None
    /\ pc = "start"
    /\ kinds_left = <<>>
    /\ fits = <<>>
    /\ skipped = <<>>
    /\ outcome = NoOutcome
    /\ model = "Ns"
    /\ tau_grid = <<>>
    /\ w_base = <<>>
    /\ w_work_real = <<>>
    /\ monotone_dir = NoDir
    /\ monotone_dir_work = NoDir
    /\ best = None
    /\ passes = 0
    /\ calls = <<>>
    /\ ParIdle
    /\ FnIdle

Init == InitWith(SelectorInputs \cup BaselineInputs \cup FitterInputs)

fm_vars == <<model, tau_grid, w_base, w_work_real, monotone_dir,
             monotone_dir_work, best, passes, calls, kernel>>

(* return Err(e) out of fit_and_select *)
ReturnErr(e) ==
    /\ outcome' = e
    /\ pc' = "done"

(* fit_and_select, lines 47-63: the checks before the loop. *)
fit_and_select_begin ==
    /\ pc = "start"
    /\ LET prior == build_baseline_prior(points, baseline, anchor_baselines, config)
       IN  IF ~IsPosFinite(config.tau_min_ratio)
           THEN /\ ReturnErr(Err(2, "Invalid tau_min_ratio setting"))
                /\ UNCHANGED <<kinds_left, baseline_prior>>
           ELSE IF ~prior.ok
           THEN /\ ReturnErr(prior)
                /\ UNCHANGED <<kinds_left, baseline_prior>>
           ELSE /\ kinds_left' = model_kinds(config.model_spec)
                /\ baseline_prior' = prior.prior
                /\ pc' = "loop"
                /\ UNCHANGED outcome
    /\ UNCHANGED <<points, config, baseline, anchor_baselines, fits, skipped>>
    /\ UNCHANGED fm_vars
    /\ UNCHANGED <<slots, workers, done_order, chosen, fn_in, fn_out>>

(* The test of the parameter count alone: n < k. *)
is_underdetermined_no_buffer(n, k) == n < k

(* Line 67: the test that skips an order. *)
is_underdetermined(n, k) == n < k + MIN_N_BUFFER

(* Lines 68-71: "Underdetermined: n={} < k+5={}" with n and k + 5. *)
Underdetermined(n, k) ==
    [tag |-> "Underdetermined", n |-> n, need |-> k + MIN_N_BUFFER]

(* One iteration of `for kind in model_kinds` whose order is                *)
(* underdetermined: lines 66-73.                                            *)
skip_underdetermined ==
    /\ pc = "loop"
    /\ kinds_left # <<>>
    /\ LET kind == Head(kinds_left)
           k == param_count(kind)
           n == Len(points)
       IN  /\ is_underdetermined(n, k)
           /\ skipped' = Append(skipped, [kind |-> kind, reason |-> Underdetermined(n, k)])
    /\ kinds_left' = Tail(kinds_left)
    /\ UNCHANGED <<points, config, baseline, anchor_baselines, baseline_prior>>
    /\ UNCHANGED <<pc, fits, outcome>>
    /\ UNCHANGED fm_vars
    /\ UNCHANGED <<slots, workers, done_order, chosen, fn_in, fn_out>>

(* One iteration of the loop for an eligible order, up to the first pass of *)
(* fit_model: the tau grid (lines 75-89) and the entry of fit_model (lines  *)
(* 83-123 of fitter.rs).  Every error returns through `?`.                  *)
enter_fit_model ==
    /\ pc = "loop"
    /\ kinds_left # <<>>
    /\ LET kind == Head(kinds_left)
           k == param_count(kind)
           n == Len(points)
           g == TauGridFor(kind, config)
           wb == Weights(points)
           dir == resolve_monotone_dir(config.short_end_monotone, Tenors(points),
                                       YObs(points), wb, config.short_end_window)
       IN  /\ ~is_underdetermined(n, k)
           /\ IF ~g.ok
              THEN ReturnErr(g) /\ UNCHANGED fm_vars
              ELSE IF points = <<>>
              THEN ReturnErr(Err(3, "No data points to fit")) /\ UNCHANGED fm_vars
              ELSE IF g.grid = <<>>
              THEN ReturnErr(Err(4, "Tau grid is empty")) /\ UNCHANGED fm_vars
              ELSE /\ model' = kind
                   /\ tau_grid' = g.grid
                   /\ w_base' = wb
                   /\ w_work_real' = wb
                   /\ monotone_dir' = dir
                   /\ monotone_dir_work' = dir
                   /\ best' = None
                   /\ passes' = 0
                   /\ calls' = <<>>
                   /\ pc' = "pass"
                   /\ UNCHANGED <<outcome, kernel>>
    /\ UNCHANGED <<points, config, baseline, anchor_baselines, baseline_prior>>
    /\ UNCHANGED <<kinds_left, fits, skipped>>
    /\ UNCHANGED <<slots, workers, done_order, chosen, fn_in, fn_out>>

(* One call of fit_once: the pass, the direction and the weights handed to  *)
(* it, and whether it returned Ok.                                          *)
Call(p, dir, ok, w) == [pass |-> p, dir |-> dir, ok |-> ok, w |-> w]

(* No retry at all. *)
FallbackNever(first, dir_work) == FALSE

(* Lines 138-139: a failed grid search is retried when the guardrail is on. *)
FallbackApplies(first, dir_work) == ~first.ok /\ dir_work # NoDir

(* After a pass that writes the working weights even when robust fitting is *)
(* off (no break at line 163).                                              *)
AfterPassAlwaysReweighting(candidate) ==
    /\ best' = Some(candidate)
    /\ w_work_real' = huber_reweight(w_base,
                          compute_residuals(candidate, Len(points)),
                          config.robust_k)
    /\ pc' = IF config.robust # "None"
                /\ passes + 1 < n_refits(config.robust, config.robust_iters)
             THEN "pass" ELSE "ret"
    /\ passes' = passes + 1
    /\ UNCHANGED outcome

(* After a pass whose downweighting accumulates: an observation keeps the   *)
(* lower of its previous working weight and its new weight.                 *)
AfterPassAccumulating(candidate) ==
    /\ best' = Some(candidate)
    /\ IF config.robust = "None"
       THEN /\ pc' = "ret"
            /\ UNCHANGED w_work_real
       ELSE /\ \E w \in {huber_reweight(w_base,
                             compute_residuals(candidate, Len(points)),
                             config.robust_k)} :
                  w_work_real' =
                      [i \in 1..Len(w) |->
                          IF RLeq(w_work_real[i].v, w[i].v)
                          THEN w_work_real[i] ELSE w[i]]
            /\ pc' = IF passes + 1 < n_refits(config.robust, config.robust_iters)
                     THEN "pass" ELSE "ret"
    /\ passes' = passes + 1
    /\ UNCHANGED outcome

(* After a pass whose candidate is scored again under the base weights. *)
AfterPassScoringBaseWeights(candidate) ==
    /\ best' = Some([candidate EXCEPT
                        !.sse = WeightedSse(compute_residuals(candidate, Len(points)),
                                            w_base).v])
    /\ IF config.robust = "None"
       THEN /\ pc' = "ret"
            /\ UNCHANGED w_work_real
       ELSE /\ w_work_real' = huber_reweight(w_base,
                                  compute_residuals(candidate, Len(points)),
                                  config.robust_k)
            /\ pc' = IF passes + 1 < n_refits(config.robust, config.robust_iters)
                     THEN "pass" ELSE "ret"
    /\ passes' = passes + 1
    /\ UNCHANGED outcome

(* After a successful grid search of the pass: lines 160-170. *)
AfterPass(candidate) ==
    /\ best' = Some(candidate)
    /\ IF config.robust = "None"
       THEN /\ pc' = "ret"
            /\ UNCHANGED w_work_real
       ELSE /\ w_work_real' = huber_reweight(w_base,
                                  compute_residuals(candidate, Len(points)),
                                  config.robust_k)
            /\ pc' = IF passes + 1 < n_refits(config.robust, config.robust_iters)
                     THEN "pass" ELSE "ret"
    /\ passes' = passes + 1
    /\ UNCHANGED outcome

(* The guardrail left on for the passes after a fallback. *)
GuardrailKept(dir_work) == dir_work

(* Line 139: monotone_dir_work = None. *)
GuardrailAfterFallback(dir_work) == NoDir

(* One iteration of `for _ in 0..n_refits`: lines 125-170, with the         *)
(* fallback without the guardrail.  kern is what the solves of this pass    *)
(* yield under w_work_real; first and retry are the values the two calls of *)
(* fit_once return.                                                         *)
PassWith(kern) ==
    \E kept \in {non_negative_filter(kern, config.enforce_non_negative)} :
    \E first \in {fit_once(tau_grid, kept, Tenors(points), YObs(points),
                           w_work_real, monotone_dir_work,
                           config.short_end_window)} :
       IF first.ok
       THEN /\ calls' = Append(calls, Call(passes + 1, monotone_dir_work, TRUE, w_work_real))
            /\ UNCHANGED monotone_dir_work
            /\ AfterPass(first.val)
       ELSE IF FallbackApplies(first, monotone_dir_work)
       THEN \E retry \in {fit_once(tau_grid, kept, Tenors(points), YObs(points),
                                   w_work_real, NoDir, config.short_end_window)} :
               /\ monotone_dir_work' = GuardrailAfterFallback(monotone_dir_work)
               /\ calls' = calls \o <<Call(passes + 1, monotone_dir_work, FALSE, w_work_real),
                                      Call(passes + 1, NoDir, retry.ok, w_work_real)>>
               /\ IF retry.ok
                  THEN AfterPass(retry.val)
                  ELSE ReturnErr(retry) /\ UNCHANGED <<best, passes, w_work_real>>
       ELSE /\ calls' = Append(calls, Call(passes + 1, monotone_dir_work, FALSE, w_work_real))
            /\ ReturnErr(first)
            /\ UNCHANGED <<monotone_dir_work, best, passes, w_work_real>>

fit_model_pass ==
    /\ pc = "pass"
    /\ \E kern \in [1..Len(tau_grid) -> Outcomes] : PassWith(kern)
    /\ UNCHANGED <<points, config, baseline, anchor_baselines, baseline_prior>>
    /\ UNCHANGED <<kinds_left, fits, skipped>>
    /\ UNCHANGED <<model, tau_grid, w_base, monotone_dir, kernel>>
    /\ UNCHANGED <<slots, workers, done_order, chosen, fn_in, fn_out>>

(* fit_model returns its ModelFit (lines 172-186) and fit_and_select pushes *)
(* the FitResult (line 100).                                                *)
fit_model_return ==
    /\ pc = "ret"
    /\ IF ~best.some
       THEN ReturnErr(Err(4, "No valid fit candidates")) /\ UNCHANGED <<fits, kinds_left>>
       ELSE \E b \in BicValues :
              LET fit == [model |-> model, idx |-> best.val.idx, taus |-> best.val.taus,
                          sse |-> best.val.sse]
              IN  /\ fits' = Append(fits, to_fit_result(fit, Len(points),
                                                       param_count(model), b))
                  /\ kinds_left' = Tail(kinds_left)
                  /\ pc' = "loop"
                  /\ UNCHANGED outcome
    /\ UNCHANGED <<points, config, baseline, anchor_baselines, baseline_prior>>
    /\ UNCHANGED <<skipped>>
    /\ UNCHANGED fm_vars
    /\ UNCHANGED <<slots, workers, done_order, chosen, fn_in, fn_out>>

(* The error of an empty fit list reported as a failed fit. *)
no_fit_error_as_fit_failed == Err(4, "Insufficient data to fit any model after guardrails")

(* Lines 103-108. *)
no_fit_error == Err(3, "Insufficient data to fit any model after guardrails")

(* After the loop: lines 103-121. *)
fit_and_select_finish ==
    /\ pc = "loop"
    /\ kinds_left = <<>>
    /\ IF fits = <<>>
       THEN outcome' = no_fit_error
       ELSE outcome' = [ok |-> TRUE,
                        best |-> IF config.model_spec \in {"Ns", "Nss", "Nssc"}
                                 THEN fits[1] ELSE select_by_bic(fits),
                        fits |-> fits, skipped |-> skipped]
    /\ pc' = "done"
    /\ UNCHANGED <<points, config, baseline, anchor_baselines, baseline_prior>>
    /\ UNCHANGED <<kinds_left, fits, skipped>>
    /\ UNCHANGED fm_vars
    /\ UNCHANGED <<slots, workers, done_order, chosen, fn_in, fn_out>>

Next ==
    \/ fit_and_select_begin
    \/ skip_underdetermined
    \/ enter_fit_model
    \/ fit_model_pass
    \/ fit_model_return
    \/ fit_and_select_finish

Spec == Init /\ [][Next]_vars

(* The runs of the robust outer loop: every robust setting, with and        *)
(* without the guardrail, on valid and on invalid observations; eleven      *)
(* points and the NSS order on a grid of one tau pair.                      *)
LoopInputs ==
    { [points |-> MkPoints(11, fl), baseline |-> None, anchors |-> None,
       config |-> [BaseConfig EXCEPT
                      !.model_spec = "Nss", !.tau_steps_nss = 2,
                      !.short_end_monotone = mono,
                      !.robust = r.robust, !.robust_iters = r.iters]] :
        fl \in {"ok", "mixed", "bad_y"},
        mono \in {"None", "Increasing", "Decreasing"},
        r \in RobustSettings }

(* fit_model alone: it is sequential code, every step of which is taken     *)
(* once the one before has finished.                                        *)
InitFitModel == InitWith(LoopInputs)

NextFitModel ==
    \/ fit_and_select_begin
    \/ enter_fit_model
    \/ fit_model_pass
    \/ fit_model_return
    \/ fit_and_select_finish

SpecFitModel == InitFitModel /\ [][NextFitModel]_vars /\ WF_vars(NextFitModel)

-----------------------------------------------------------------------------
(* Properties of fit_and_select and fit_model *)

(* n >= k + 5 by order: 9, 11 and 13 observations. *)
Threshold(kind) == CASE kind = "Ns" -> 9 [] kind = "Nss" -> 11 [] kind = "Nssc" -> 13

Requested ==
    CASE config.model_spec = "Ns" -> {"Ns"}
      [] config.model_spec = "Nss" -> {"Nss"}
      [] config.model_spec = "Nssc" -> {"Nssc"}
      [] OTHER -> {"Ns", "Nss", "Nssc"}

(* The requested orders the loop has dealt with. *)
Processed ==
    IF pc \in {"loop", "pass", "ret"} \/ outcome.ok
    THEN {kind \in Requested : \A i \in 1..Len(kinds_left) : kinds_left[i] # kind}
    ELSE {}

(* C5: an order is fitted only with n >= k + 5 observations (9, 11, 13);    *)
(* an order with fewer is never in a fit of fit_model, never among the      *)
(* fits, never selected, and once the loop has dealt with it it is in       *)
(* skipped with a reason that states n and k + 5.                           *)
C5_UnderdeterminedNeverFitted ==
    LET n == Len(points)
    IN  /\ pc \in {"pass", "ret"} => n >= Threshold(model)
        /\ \A i \in 1..Len(fits) : n >= Threshold(fits[i].name)
        /\ outcome.ok => n >= Threshold(outcome.best.name)
        /\ \A kind \in Processed :
              n < Threshold(kind) =>
                 \E j \in 1..Len(skipped) :
                    /\ skipped[j].kind = kind
                    /\ skipped[j].reason.n = n
                    /\ skipped[j].reason.need = Threshold(kind)
        /\ \A j \in 1..Len(skipped) :
              /\ n < Threshold(skipped[j].kind)
              /\ \A i \in 1..Len(fits) : fits[i].name # skipped[j].kind

(* A selection has been returned with NS and NSS fitted and NSSC skipped    *)
(* for n = 11 < 13.                                                         *)
C5_Witness ==
    /\ pc = "done"
    /\ outcome.ok
    /\ Len(points) = 11
    /\ Len(fits) = 2
    /\ Len(skipped) = 1
    /\ skipped[1].kind = "Nssc"
    /\ skipped[1].reason.n = 11
    /\ skipped[1].reason.need = 13

(* C6: fit_and_select fails with FIT_FAILED (exit code 4) only if no        *)
(* eligible order could be fitted: an order whose fit fails is skipped and  *)
(* the orders fitted so far are kept.                                       *)
C6_FailedOrderIsSkipped ==
    (pc = "done" /\ ~outcome.ok /\ outcome.exit_code = 4) => fits = <<>>

AllUnderdetermined == \A kind \in Requested : Len(points) < Threshold(kind)

ProloguePasses ==
    /\ config.tau_min_ratio.cls = "pos"
    /\ baseline.some =>
          /\ Len(baseline.val) = Len(points)
          /\ \A i \in 1..Len(baseline.val) :
                is_finite(baseline.val[i]) /\ baseline.val[i].v > 0
          /\ anchor_baselines.some =>
                /\ Len(anchor_baselines.val) = Len(config.anchor_tenors)
                /\ \A i \in 1..Len(anchor_baselines.val) :
                      is_finite(anchor_baselines.val[i]) /\ anchor_baselines.val[i].v > 0

CallsOfPass(p) == {j \in 1..Len(calls) : calls[j].pass = p}

(* C9: a grid search that fails with the guardrail on is followed by        *)
(* exactly one more search of the same pass, without the guardrail; a       *)
(* search that fails without the guardrail (the retry, or a search with     *)
(* monotonicity off) ends fit_model with an error of exit code 4.           *)
C9_RetryOnceThenFail ==
    /\ \A j \in 1..Len(calls) :
          (~calls[j].ok /\ calls[j].dir # "None") =>
             /\ j < Len(calls)
             /\ calls[j + 1].dir = "None"
             /\ calls[j + 1].pass = calls[j].pass
             /\ CallsOfPass(calls[j].pass) = {j, j + 1}
    /\ \A j \in 1..Len(calls) :
          (calls[j].ok \/ calls[j].dir = "None") =>
             \/ CallsOfPass(calls[j].pass) = {j}
             \/ j > 1 /\ CallsOfPass(calls[j].pass) = {j - 1, j}
                      /\ ~calls[j - 1].ok /\ calls[j - 1].dir # "None"
    /\ \A j \in 1..Len(calls) :
          (~calls[j].ok /\ calls[j].dir = "None") =>
             /\ j = Len(calls)
             /\ pc = "done"
             /\ ~outcome.ok
             /\ outcome.exit_code = 4
    /\ (pc \in {"pass", "ret"} /\ calls # <<>>) => calls[Len(calls)].ok

(* fit_model has failed in its second pass: the search with the guardrail   *)
(* on left no candidate and neither did the retry without it.               *)
C9_Witness ==
    /\ pc = "done"
    /\ ~outcome.ok
    /\ outcome.exit_code = 4
    /\ Len(calls) = 3
    /\ calls[1].ok /\ calls[1].dir # "None"
    /\ ~calls[2].ok /\ calls[2].dir # "None" /\ calls[2].pass = 2
    /\ ~calls[3].ok /\ calls[3].dir = "None" /\ calls[3].pass = 2

RealSse(profile, w) ==
    SeqSum([i \in 1..Len(points) |->
               RMul(w[i].v, RInt(Residuals(profile, Len(points))[i].v
                                 * Residuals(profile, Len(points))[i].v))])

AnchorsGiven ==
    /\ anchor_baselines.some
    /\ Len(anchor_baselines.val) = Len(config.anchor_tenors)
    /\ \A i \in 1..Len(anchor_baselines.val) :
          is_finite(anchor_baselines.val[i]) /\ anchor_baselines.val[i].v > 0

(* The baseline given is one finite positive value per observation. *)
BaselineGiven ==
    /\ baseline.some
    /\ Len(baseline.val) = Len(points)
    /\ \A i \in 1..Len(baseline.val) :
          is_finite(baseline.val[i]) /\ baseline.val[i].v > 0

(* C13: the two prior families are independent: once the prior is built,    *)
(* anchors given are in it whether or not a baseline is given, and a        *)
(* baseline given is in it whether or not anchors are given.                *)
C13_PriorFamiliesIndependent ==
    pc \in {"loop", "pass", "ret"} =>
        /\ AnchorsGiven =>
              /\ baseline_prior.some
              /\ Len(baseline_prior.val.anchors) = Len(config.anchor_tenors)
        /\ (BaselineGiven /\ ~anchor_baselines.some) =>
              /\ baseline_prior.some
              /\ baseline_prior.val.y = baseline.val

(* The curve on the 25 samples over [0, window]; all samples are at 0 when  *)
(* the window is 0.                                                         *)
SampledCurve(shape, window) ==
    IF window.cls = "fin" /\ window.v <= 0
    THEN [i \in 1..25 |-> Curve(shape)[1]]
    ELSE Curve(shape)

(* No successive difference beyond 1e-9 (1000 units of 1e-12) in the wrong  *)
(* direction.                                                               *)
SignedDifferenceRule(shape, dir, window) ==
    LET s == SampledCurve(shape, window)
    IN  \A i \in 1..24 :
           (is_finite(s[i]) /\ is_finite(s[i + 1])) =>
              /\ dir = "Increasing" => s[i + 1].v - s[i].v >= -1000
              /\ dir = "Decreasing" => s[i + 1].v - s[i].v <= 1000

(* A grid search of the current fit_model call failed with the guardrail on. *)
FellBack == \E j \in 1..Len(calls) : ~calls[j].ok /\ calls[j].dir # "None"

(* C10: a fit that fit_model returns with monotonicity up or down satisfies *)
(* the signed-difference rule on the 25 samples over the short-end window,  *)
(* or a grid search with the guardrail on left no candidate before it.      *)
C10_MonotoneOrFallback ==
    (pc = "ret" /\ best.some /\ monotone_dir \in {"Increasing", "Decreasing"}) =>
        \/ SignedDifferenceRule(best.val.shape, monotone_dir, config.short_end_window)
        \/ FellBack

(* fit_model returns, after two guarded passes, a curve that moves by       *)
(* exactly 1e-9 against the direction.                                      *)
C10_Witness ==
    /\ pc = "ret"
    /\ best.some
    /\ monotone_dir = "Increasing"
    /\ config.short_end_window = Fin(3)
    /\ best.val.shape = "wig"
    /\ passes = 2
    /\ ~FellBack

-----------------------------------------------------------------------------
(* The parallel grid search of fit_once, run twice on the same input *)

(* The kernel outcomes drawn per candidate in the parallel search. *)
GridOutcomes ==
    { NoSolution, Solved("up", "zero"), Solved("down", "flat"), Solved("dip", "flat") }

Slot(st, ev) == [st |-> st, ev |-> ev]

InitGrid ==
    /\ points = MkPoints(9, "ok")
    /\ \E mono \in {"None", "Increasing"} :
          config = [BaseConfig EXCEPT !.model_spec = "Ns", !.short_end_monotone = mono]
    /\ baseline = None
    /\ anchor_baselines = None
    /\ baseline_prior = None
    /\ pc = "par"
    /\ kinds_left = <<"Ns">>
    /\ fits = <<>>
    /\ skipped = <<>>
    /\ outcome = NoOutcome
    /\ model = "Ns"
    /\ tau_grid = TauGridFor("Ns", config).grid
    /\ w_base = Weights(points)
    /\ w_work_real = w_base
    /\ monotone_dir = resolve_monotone_dir(config.short_end_monotone, Tenors(points),
                                           YObs(points), w_base, config.short_end_window)
    /\ monotone_dir_work = monotone_dir
    /\ best = None
    /\ passes = 0
    /\ calls = <<>>
    /\ kernel \in [1..Len(tau_grid) -> GridOutcomes]
    /\ slots = [i \in 1..Len(tau_grid) |-> Slot("todo", None)]
    /\ \E T \in 1..MaxThreads : workers = [t \in 1..T |-> 0]
    /\ done_order = <<>>
    /\ chosen = NoChosen
    /\ FnIdle

(* A worker thread takes a grid index nobody has taken yet. *)
grid_take(t, i) ==
    /\ pc = "par"
    /\ workers[t] = 0
    /\ slots[i].st = "todo"
    /\ workers' = [workers EXCEPT ![t] = i]
    /\ slots' = [slots EXCEPT ![i] = Slot("run", None)]
    /\ UNCHANGED <<done_order, chosen, kernel>>
    /\ UNCHANGED sel_vars
    /\ UNCHANGED <<model, tau_grid, w_base, w_work_real, monotone_dir,
                   monotone_dir_work, best, passes, calls, fn_in, fn_out>>

(* The closure of filter_map returns for the index the thread holds. *)
grid_finish(t) ==
    /\ pc = "par"
    /\ workers[t] # 0
    /\ LET i == workers[t]
           ev == evaluate_candidate(kernel[i], Tenors(points), YObs(points),
                                    w_work_real, monotone_dir_work,
                                    config.short_end_window)
       IN  /\ slots' = [slots EXCEPT ![i] = Slot("done", ev)]
           /\ done_order' = Append(done_order, i)
    /\ workers' = [workers EXCEPT ![t] = 0]
    /\ UNCHANGED <<chosen, kernel>>
    /\ UNCHANGED sel_vars
    /\ UNCHANGED <<model, tau_grid, w_base, w_work_real, monotone_dir,
                   monotone_dir_work, best, passes, calls, fn_in, fn_out>>

(* collect() returns and the reduction of lines 228-243 runs. *)
grid_join ==
    /\ pc = "par"
    /\ \A i \in 1..Len(tau_grid) : slots[i].st = "done"
    /\ chosen' = FitOnceJoin(tau_grid, [i \in 1..Len(tau_grid) |-> slots[i].ev],
                             done_order)
    /\ pc' = "joined"
    /\ UNCHANGED <<points, config, baseline, anchor_baselines, baseline_prior>>
    /\ UNCHANGED <<kinds_left, fits, skipped, outcome>>
    /\ UNCHANGED <<slots, workers, done_order, kernel>>
    /\ UNCHANGED <<model, tau_grid, w_base, w_work_real, monotone_dir,
                   monotone_dir_work, best, passes, calls, fn_in, fn_out>>

(* The same call of fit_once again, on a pool of T threads: the result of   *)
(* the first run is kept in outcome.                                        *)
grid_rerun ==
    /\ pc = "joined"
    /\ passes = 0
    /\ outcome' = chosen
    /\ passes' = 1
    /\ pc' = "par"
    /\ slots' = [i \in 1..Len(tau_grid) |-> Slot("todo", None)]
    /\ \E T \in 1..MaxThreads : workers' = [t \in 1..T |-> 0]
    /\ done_order' = <<>>
    /\ chosen' = NoChosen
    /\ UNCHANGED <<points, config, baseline, anchor_baselines, baseline_prior>>
    /\ UNCHANGED <<kinds_left, fits, skipped, kernel>>
    /\ UNCHANGED <<model, tau_grid, w_base, w_work_real, monotone_dir,
                   monotone_dir_work, best, calls, fn_in, fn_out>>

NextGrid ==
    \/ \E t \in DOMAIN workers, i \in DOMAIN slots : grid_take(t, i)
    \/ \E t \in DOMAIN workers : grid_finish(t)
    \/ grid_join
    \/ grid_rerun

SpecGrid == InitGrid /\ [][NextGrid]_vars

-----------------------------------------------------------------------------
(* Properties of the grid search *)

(* The grid indices whose evaluation left a candidate. *)
Survivors == {i \in DOMAIN slots : slots[i].st = "done" /\ slots[i].ev.some}

(* C1: the candidate fit_once returns has the minimum SSE among the         *)
(* surviving candidates, and among the surviving candidates of that SSE it  *)
(* has the smallest index in the tau grid.                                  *)
C1_MinSseSmallestIndex ==
    (pc = "joined" /\ chosen.ok) =>
        /\ chosen.val.idx \in Survivors
        /\ chosen.val.sse = slots[chosen.val.idx].ev.val.sse
        /\ chosen.val.taus = tau_grid[chosen.val.idx]
        /\ \A i \in Survivors :
              /\ RLeq(chosen.val.sse, slots[i].ev.val.sse)
              /\ slots[i].ev.val.sse = chosen.val.sse => chosen.val.idx <= i

(* A search has returned where two survivors tie on the minimum SSE and a   *)
(* survivor of larger SSE comes first in the grid.                          *)
C1_Witness ==
    /\ pc = "joined"
    /\ chosen.ok
    /\ \E i, j \in Survivors :
          /\ i < j
          /\ slots[i].ev.val.sse = chosen.val.sse
          /\ slots[j].ev.val.sse = chosen.val.sse
    /\ \E i \in Survivors :
          /\ i < chosen.val.idx
          /\ RLt(chosen.val.sse, slots[i].ev.val.sse)

-----------------------------------------------------------------------------
(* huber_reweight and select_by_bic on inputs of their own *)

(* No run of fit_and_select and no grid search is in progress. *)
SelIdle ==
    /\ points = <<>>
    /\ config = BaseConfig
    /\ baseline = None
    /\ anchor_baselines = None
    /\ baseline_prior = None
    /\ kinds_left = <<>>
    /\ fits = <<>>
    /\ skipped = <<>>
    /\ outcome = NoOutcome
    /\ model = "Ns"
    /\ tau_grid = <<>>
    /\ w_base = <<>>
    /\ w_work_real = <<>>
    /\ monotone_dir = NoDir
    /\ monotone_dir_work = NoDir
    /\ best = None
    /\ passes = 0
    /\ calls = <<>>

(* Residuals in units of 1e-12: zero, small, large, and non-finite. *)
HuberResiduals == {Fin(0), Fin(2), Fin(-6), Fin(2000), NaN, PInf}
HuberBaseWeights == {Fin(RInt(1)), Fin(RInt(2))}
(* k: the default 1.5, zero (below the floor of 1e-6), NaN and +infinity. *)
HuberKs == {Fin(Rat(3, 2)), Fin(RInt(0)), NaN, PInf}

InitHuber ==
    /\ SelIdle
    /\ ParIdle
    /\ pc = "call"
    /\ \E n \in 1..MaxVec :
          \E w \in [1..n -> HuberBaseWeights], r \in [1..n -> HuberResiduals],
             k \in HuberKs :
                fn_in = [w_base |-> w, residuals |-> r, k |-> k]
    /\ fn_out = <<>>

call_huber_reweight ==
    /\ pc = "call"
    /\ fn_out' = huber_reweight(fn_in.w_base, fn_in.residuals, fn_in.k)
    /\ pc' = "returned"
    /\ UNCHANGED <<points, config, baseline, anchor_baselines, baseline_prior>>
    /\ UNCHANGED <<kinds_left, fits, skipped, outcome>>
    /\ UNCHANGED fm_vars
    /\ UNCHANGED <<slots, workers, done_order, chosen, fn_in>>

NextHuber == call_huber_reweight

SpecHuber == InitHuber /\ [][NextHuber]_vars

(* C8: after huber_reweight the working weight of every observation is at   *)
(* least 0.001 times its base weight, whatever the residuals (zero, large,  *)
(* non-finite) and whatever k.                                              *)
C8_WeightFloor ==
    pc = "returned" =>
        /\ Len(fn_out) = Len(fn_in.w_base)
        /\ \A i \in 1..Len(fn_out) :
              /\ is_finite(fn_out[i])
              /\ RLeq(RMul(fn_in.w_base[i].v, Rat(1, 1000)), fn_out[i].v)

(* A reweighting has returned a weight of exactly 0.001 times the base      *)
(* weight for a large residual, next to a non-finite residual.              *)
C8_Witness ==
    /\ pc = "returned"
    /\ \E i, j \in 1..Len(fn_out) :
          /\ fn_in.residuals[i] = Fin(2000)
          /\ fn_out[i].v = RMul(fn_in.w_base[i].v, Rat(1, 1000))
          /\ ~is_finite(fn_in.residuals[j])

(* The attempted fits handed to select_by_bic: one fit per order, for any   *)
(* non-empty set of orders, in any sequence, with any BIC drawn.            *)
FitOf(kind, b) ==
    to_fit_result([model |-> kind, idx |-> 1, taus |-> <<>>, sse |-> RInt(1)],
                  MaxN, param_count(kind), b)

AttemptedFits ==
    { fs \in UNION {[1..m -> {FitOf(kind, b) : kind \in {"Ns", "Nss", "Nssc"},
                                              b \in 0..MaxBic}] : m \in 1..3} :
        \A i, j \in 1..Len(fs) : i # j => fs[i].name # fs[j].name }

InitSelect ==
    /\ SelIdle
    /\ ParIdle
    /\ pc = "call"
    /\ fn_in \in AttemptedFits
    /\ fn_out = <<>>

call_select_by_bic ==
    /\ pc = "call"
    /\ fn_out' = select_by_bic(fn_in)
    /\ pc' = "returned"
    /\ UNCHANGED <<points, config, baseline, anchor_baselines, baseline_prior>>
    /\ UNCHANGED <<kinds_left, fits, skipped, outcome>>
    /\ UNCHANGED fm_vars
    /\ UNCHANGED <<slots, workers, done_order, chosen, fn_in>>

NextSelect == call_select_by_bic

SpecSelect == InitSelect /\ [][NextSelect]_vars

(* The attempted fit of an order, and whether there is one. *)
Attempted(kind) == \E i \in 1..Len(fn_in) : fn_in[i].name = kind
BicOf(kind) == fn_in[CHOOSE i \in 1..Len(fn_in) : fn_in[i].name = kind].bic
MinBic == CHOOSE b \in {fn_in[i].bic : i \in 1..Len(fn_in)} :
              \A i \in 1..Len(fn_in) : b <= fn_in[i].bic
Rank(kind) == CASE kind = "Ns" -> 1 [] kind = "Nss" -> 2 [] kind = "Nssc" -> 3

-----------------------------------------------------------------------------
(* The tau grid generators on inputs of their own *)

(* Range ends: positive finite values by their logarithm, and zero, a       *)
(* negative value, NaN and +infinity.                                       *)
TauEnds ==
    {Pos(l) : l \in 0..MaxLog}
    \cup {NonPos("zero"), NonPos("neg"), NonPos("nan"), NonPos("inf")}

(* Minimum ratios: below 1, 1, above 1, and the values f64 also has. *)
TauRatios ==
    {Pos(-1), Pos(0), Pos(1), Pos(2)}
    \cup {NonPos("zero"), NonPos("neg"), NonPos("nan"), NonPos("inf")}

InitTau ==
    /\ SelIdle
    /\ ParIdle
    /\ pc = "call"
    /\ \E min \in TauEnds, max \in TauEnds, steps \in 0..MaxSteps,
          ratio \in TauRatios :
            fn_in = [min |-> min, max |-> max, steps |-> steps,
                     min_ratio |-> ratio]
    /\ fn_out = <<>>

TauReturn(fn, result) ==
    /\ pc = "call"
    /\ fn_out' = [fn |-> fn, result |-> result]
    /\ pc' = "returned"
    /\ UNCHANGED <<points, config, baseline, anchor_baselines, baseline_prior>>
    /\ UNCHANGED <<kinds_left, fits, skipped, outcome>>
    /\ UNCHANGED fm_vars
    /\ UNCHANGED <<slots, workers, done_order, chosen, fn_in>>

call_tau_grid_ns ==
    TauReturn("tau_grid_ns", tau_grid_ns(fn_in.min, fn_in.max, fn_in.steps))

call_tau_grid_nss ==
    TauReturn("tau_grid_nss",
              tau_grid_nss(fn_in.min, fn_in.max, fn_in.steps, fn_in.min_ratio))

call_tau_grid_nssc ==
    TauReturn("tau_grid_nssc",
              tau_grid_nssc(fn_in.min, fn_in.max, fn_in.steps, fn_in.min_ratio))

NextTau == call_tau_grid_ns \/ call_tau_grid_nss \/ call_tau_grid_nssc

SpecTau == InitTau /\ [][NextTau]_vars

(* The order of two f64 values that are finite: negative < zero < positive, *)
(* positive values by their logarithm.                                      *)
TauIsFinite(x) == x.cls \in {"pos", "zero", "neg"}
TauLeq(a, b) ==
    CASE a.cls = "neg" -> TRUE
      [] a.cls = "zero" -> b.cls \in {"zero", "pos"}
      [] a.cls = "pos" -> b.cls = "pos" /\ a.log <= b.log

(* The range and step count that C14 names as invalid. *)
TauInputInvalid ==
    \/ ~TauIsFinite(fn_in.min)
    \/ ~TauIsFinite(fn_in.max)
    \/ fn_in.min.cls \in {"zero", "neg"}
    \/ TauLeq(fn_in.max, fn_in.min)
    \/ fn_in.steps < 2

(* C14: tau grid generation fails with exit code 2 and produces no grid     *)
(* whenever tau_min or tau_max is not finite, tau_min <= 0,                 *)
(* tau_max <= tau_min or steps < 2; otherwise it succeeds with a grid.      *)
C14_TauGridFailsOnInvalidRange ==
    pc = "returned" =>
        IF TauInputInvalid
        THEN /\ ~fn_out.result.ok
             /\ fn_out.result.exit_code = 2
             /\ "grid" \notin DOMAIN fn_out.result
        ELSE /\ fn_out.result.ok
             /\ "grid" \in DOMAIN fn_out.result

(* A generator has failed on a range of two equal positive finite ends with *)
(* two steps or more.                                                       *)
C14_Witness ==
    /\ pc = "returned"
    /\ fn_in.min.cls = "pos"
    /\ fn_in.max = fn_in.min
    /\ fn_in.steps >= 2
    /\ ~fn_out.result.ok
    /\ fn_out.result.exit_code = 2

(* The log-spaced values of the call, by index. *)
TauValueAt(i) ==
    fn_in.min.log
        + RoundHalfEven((fn_in.max.log - fn_in.min.log) * (i - 1), fn_in.steps - 1)

(* An index of a log-spaced value. *)
TauIndexOf(v) == CHOOSE i \in 1..fn_in.steps : TauValueAt(i) = v

(* t comes strictly before u in lexicographic order of the index tuples. *)
IndexLexLess(t, u) ==
    \E k \in 1..Len(t) :
        /\ \A m \in 1..(k - 1) : TauIndexOf(t[m]) = TauIndexOf(u[m])
        /\ TauIndexOf(t[k]) < TauIndexOf(u[k])

(* tau[k+1] >= max(min_ratio, 1) * tau[k], on the logarithms. *)
SeparatedBy(ratio, lo, hi) ==
    CASE ratio.cls = "inf" -> FALSE
      [] ratio.cls = "pos" /\ ratio.log > 0 -> hi - lo >= ratio.log
      [] OTHER -> hi - lo >= 0

(* C15: every tuple of tau_grid_nss and tau_grid_nssc is strictly           *)
(* increasing, each successive pair satisfies                               *)
(* tau[i+1] >= max(min_ratio, 1) * tau[i], and the tuples come in strict    *)
(* lexicographic order of their index tuples over the log-spaced values     *)
(* (so none comes twice).                                                   *)
C15_TauTuplesOrdered ==
    (pc = "returned" /\ fn_out.fn \in {"tau_grid_nss", "tau_grid_nssc"}
        /\ fn_out.result.ok) =>
        LET grid == fn_out.result.grid
            arity == IF fn_out.fn = "tau_grid_nss" THEN 2 ELSE 3
        IN  /\ \A a \in 1..Len(grid) :
                  /\ Len(grid[a]) = arity
                  /\ \A k \in 1..arity :
                        \E i \in 1..fn_in.steps : grid[a][k] = TauValueAt(i)
                  /\ \A k \in 1..(arity - 1) :
                        /\ grid[a][k] < grid[a][k + 1]
                        /\ SeparatedBy(fn_in.min_ratio, grid[a][k], grid[a][k + 1])
            /\ \A a \in 1..Len(grid), b \in 1..Len(grid) :
                  a < b => IndexLexLess(grid[a], grid[b])

(* The arguments log_space accepts. *)
LogSpaceValid ==
    /\ fn_in.min.cls = "pos"
    /\ fn_in.max.cls = "pos"
    /\ fn_in.max.log > fn_in.min.log
    /\ fn_in.steps >= 2

(* The NS grid is `steps` one-element tuples from min to max. *)
NsGridSpansRange(grid) ==
    /\ Len(grid) = fn_in.steps
    /\ \A a \in 1..Len(grid) : Len(grid[a]) = 1
    /\ grid[1][1] = fn_in.min.log
    /\ grid[Len(grid)][1] = fn_in.max.log

(* C25: log_space(min, max, steps) with valid arguments returns exactly     *)
(* `steps` values that are strictly increasing, the first equal to min and  *)
(* the last equal to max, so the NS grid has exactly `steps` one-element    *)
(* tuples.                                                                  *)
C25_LogSpaceStrictlyIncreasing ==
    (pc = "returned" /\ fn_out.fn = "tau_grid_ns" /\ LogSpaceValid) =>
        /\ fn_out.result.ok
        /\ NsGridSpansRange(fn_out.result.grid)
        /\ \A a \in 1..(fn_in.steps - 1) :
              fn_out.result.grid[a][1] < fn_out.result.grid[a + 1][1]

(* C25 as the code has it: the values never decrease, and increase strictly *)
(* when the step of the logarithms is at least the spacing of the           *)
(* representable values.                                                    *)
C25_LogSpaceNonDecreasing ==
    (pc = "returned" /\ fn_out.fn = "tau_grid_ns" /\ LogSpaceValid) =>
        /\ fn_out.result.ok
        /\ NsGridSpansRange(fn_out.result.grid)
        /\ \A a \in 1..(fn_in.steps - 1) :
              /\ fn_out.result.grid[a][1] <= fn_out.result.grid[a + 1][1]
              /\ fn_in.max.log - fn_in.min.log >= fn_in.steps - 1
                    => fn_out.result.grid[a][1] < fn_out.result.grid[a + 1][1]

(* tau_grid_ns has returned four tuples over a range of two units: the      *)
(* second and third values are the same.                                    *)
C25_Witness ==
    /\ pc = "returned"
    /\ fn_out.fn = "tau_grid_ns"
    /\ fn_in.steps = 4
    /\ fn_in.max.log - fn_in.min.log = 2
    /\ fn_out.result.ok
    /\ Len(fn_out.result.grid) = 4
    /\ fn_out.result.grid[2] = fn_out.result.grid[3]

-----------------------------------------------------------------------------
(* Properties of the robust outer loop of fit_model *)

(* The number of passes C16 names. *)
PassesWanted ==
    IF config.robust = "None" THEN 1 ELSE config.robust_iters + 1

(* The last call of fit_once so far. *)
LastCall == calls[Len(calls)]

(* fit_model is about to return a fit. *)
ReturnsFit == pc = "ret" /\ best.some

(* What C16 says of a fit that fit_model returns: the passes made and the   *)
(* pass the fit comes from.                                                 *)
ExactPasses ==
    /\ passes <= PassesWanted
    /\ ReturnsFit =>
          /\ passes = PassesWanted
          /\ LastCall.pass = PassesWanted
          /\ LastCall.ok
          /\ \A p \in 1..PassesWanted : \E c \in 1..Len(calls) :
                calls[c].pass = p /\ calls[c].ok

(* Huber with robust_iters = 0 is the run of robust off: one pass, every    *)
(* call of it under the base weights.                                       *)
HuberZeroAsOff ==
    (ReturnsFit /\ (config.robust = "None" \/ config.robust_iters = 0)) =>
        /\ passes = 1
        /\ \A c \in 1..Len(calls) : calls[c].pass = 1 /\ calls[c].w = w_base

(* Every pass that succeeds replaces the fit kept by its own candidate,     *)
(* whose SSE is the one under the weights of that pass; the fit pushed is   *)
(* the fit kept at the return.                                              *)
KeepsLastPass ==
    /\ (fit_model_pass /\ passes' = passes + 1) =>
          /\ best'.some
          /\ best'.val.sse = RealSse(best'.val.res, w_work_real)
          /\ calls'[Len(calls')].ok
    /\ (fit_model_pass /\ passes' = passes) => pc' = "done"
    /\ (fit_model_return /\ best.some) =>
          LET pushed == fits'[Len(fits')]
          IN  /\ pushed.name = model
              /\ pushed.taus = best.val.taus
              /\ pushed.sse = best.val.sse

(* C16: fit_model always terminates; a fit it returns comes after exactly   *)
(* 1 grid-search pass when robust is off and exactly robust_iters + 1       *)
(* passes when robust is huber, and is the fit of the last pass; huber with *)
(* robust_iters = 0 makes the one pass of robust off, under the base        *)
(* weights.                                                                 *)
C16_PassCountAndTermination ==
    /\ [](ExactPasses /\ HuberZeroAsOff)
    /\ [][KeepsLastPass]_vars
    /\ ((pc = "pass") ~> (pc \in {"loop", "done"}))

(* fit_model is returning the fit of the third pass of a huber run with     *)
(* robust_iters = 2, the weights of that pass differing from the base       *)
(* weights.                                                                 *)
C16_Witness ==
    /\ ReturnsFit
    /\ config.robust = "Huber"
    /\ config.robust_iters = 2
    /\ passes = 3
    /\ LastCall.w # w_base


-----------------------------------------------------------------------------
(* fit_once on inputs of its own *)

(* Four NS taus. *)
FitOnceGrid == tau_grid_ns(Pos(0), Pos(3), 4).grid

(* Three observations, the second of which has the defect named: a tenor,   *)
(* a y or a weight that is zero, negative, NaN or infinite.                 *)
Defects ==
    {"none", "tenor_zero", "tenor_neg", "tenor_nan", "tenor_inf", "y_nan",
     "y_inf", "w_zero", "w_neg", "w_nan", "w_inf"}

DefectTenors(d) ==
    [i \in 1..3 |->
        IF i # 2 THEN Fin(i)
        ELSE CASE d = "tenor_zero" -> Fin(0)
               [] d = "tenor_neg" -> Fin(-1)
               [] d = "tenor_nan" -> NaN
               [] d = "tenor_inf" -> PInf
               [] OTHER -> Fin(i)]

DefectY(d) ==
    [i \in 1..3 |->
        IF i # 2 THEN Fin(i)
        ELSE CASE d = "y_nan" -> NaN
               [] d = "y_inf" -> PInf
               [] OTHER -> Fin(i)]

DefectWeights(d) ==
    [i \in 1..3 |->
        IF i # 2 THEN Fin(RInt(1))
        ELSE CASE d = "w_zero" -> Fin(RInt(0))
               [] d = "w_neg" -> Fin(RInt(-1))
               [] d = "w_nan" -> [cls |-> "nan", v |-> RInt(0)]
               [] d = "w_inf" -> [cls |-> "inf", v |-> RInt(0)]
               [] OTHER -> Fin(RInt(2))]

(* Every kernel on valid observations, and the kernels of one outcome on    *)
(* the observations with a defect.                                          *)
FitOnceInputs ==
    { [kernel |-> k, defect |-> "none", dir |-> dir, window |-> win] :
        k \in [1..Len(FitOnceGrid) -> Outcomes],
        dir \in {NoDir, "Increasing", "Decreasing"}, win \in Windows }
    \cup
    { [kernel |-> [i \in 1..Len(FitOnceGrid) |-> oc], defect |-> d,
       dir |-> dir, window |-> win] :
        oc \in Outcomes, d \in Defects,
        dir \in {NoDir, "Increasing", "Decreasing"}, win \in Windows }

InitFitOnce ==
    /\ SelIdle
    /\ ParIdle
    /\ pc = "call"
    /\ fn_in \in FitOnceInputs
    /\ fn_out = <<>>

(* One call of fit_once.  evals are the values the closure of filter_map    *)
(* returned by grid index; solves are the grid indices whose evaluation     *)
(* went past the validation of lines 258-267 to solve_least_squares.        *)
call_fit_once ==
    /\ pc = "call"
    /\ LET tenors == DefectTenors(fn_in.defect)
           y == DefectY(fn_in.defect)
           w == DefectWeights(fn_in.defect)
       IN  fn_out' =
             [result |-> fit_once(FitOnceGrid, fn_in.kernel, tenors, y, w,
                                  fn_in.dir, fn_in.window),
              evals |-> [i \in 1..Len(FitOnceGrid) |->
                            evaluate_candidate(fn_in.kernel[i], tenors, y, w,
                                               fn_in.dir, fn_in.window)],
              solves |-> IF inputs_pass(tenors, y, w)
                         THEN 1..Len(FitOnceGrid) ELSE {}]
    /\ pc' = "returned"
    /\ UNCHANGED <<points, config, baseline, anchor_baselines, baseline_prior>>
    /\ UNCHANGED <<kinds_left, fits, skipped, outcome>>
    /\ UNCHANGED fm_vars
    /\ UNCHANGED <<slots, workers, done_order, chosen, fn_in>>

NextFitOnce == call_fit_once

SpecFitOnce == InitFitOnce /\ [][NextFitOnce]_vars

(* The ways a single candidate fails. *)
LsFailed(i) == ~fn_in.kernel[i].solved
GuardrailRejects(i) ==
    /\ fn_in.kernel[i].solved
    /\ fn_in.dir # NoDir
    /\ ~SignedDifferenceRule(fn_in.kernel[i].shape, fn_in.dir, fn_in.window)
SseNotFinite(i) ==
    /\ fn_in.kernel[i].solved
    /\ \E j \in 1..3 : ~is_finite(Residuals(fn_in.kernel[i].res, 3)[j])

(* The candidates that were not dropped. *)
Kept == {i \in 1..Len(fn_out.evals) : fn_out.evals[i].some}

(* C17: a least-squares failure, a guardrail rejection or a non-finite SSE  *)
(* on a candidate drops that candidate and is no error: the grid search     *)
(* returns the best of the candidates that are left, and fails only when    *)
(* none is left.                                                            *)
C17_FailedCandidatesDropped ==
    pc = "returned" =>
        /\ \A i \in 1..Len(FitOnceGrid) :
              (LsFailed(i) \/ GuardrailRejects(i) \/ SseNotFinite(i)) => i \notin Kept
        /\ fn_out.result.ok <=> Kept # {}
        /\ ~fn_out.result.ok => fn_out.result.exit_code = 4
        /\ fn_out.result.ok =>
              /\ fn_out.result.val.idx \in Kept
              /\ fn_out.result.val.sse = fn_out.evals[fn_out.result.val.idx].val.sse
              /\ \A i \in Kept :
                    RLeq(fn_out.result.val.sse, fn_out.evals[i].val.sse)

(* A grid search has returned the last candidate of four after one failed   *)
(* in the solve, one was rejected by the guardrail and one had a            *)
(* non-finite SSE.                                                          *)
C17_Witness ==
    /\ pc = "returned"
    /\ fn_out.result.ok
    /\ fn_out.result.val.idx = 4
    /\ \E i, j, k \in 1..3 :
          LsFailed(i) /\ GuardrailRejects(j) /\ SseNotFinite(k)

(* The observations handed to the grid search hold a tenor that is          *)
(* non-finite or <= 0, a non-finite y, or a weight that is non-finite or    *)
(* <= 0.                                                                    *)
InvalidObservation == fn_in.defect # "none"

(* C18: on observations that hold a non-finite or non-positive tenor, a     *)
(* non-finite y or a non-finite or non-positive weight, no candidate gets   *)
(* to the least-squares solve: every candidate is dropped before it and     *)
(* the grid search ends in an error, with the guardrail and without it.     *)
C18_InvalidObservationsNeverSolved ==
    (pc = "returned" /\ InvalidObservation) =>
        /\ fn_out.solves = {}
        /\ \A i \in 1..Len(FitOnceGrid) : ~fn_out.evals[i].some
        /\ ~fn_out.result.ok
        /\ fn_out.result.exit_code = 4

(* A grid search without the guardrail has failed on an infinite weight,    *)
(* every solve of which would have succeeded with an exact fit.             *)
C18_Witness ==
    /\ pc = "returned"
    /\ fn_in.defect = "w_inf"
    /\ fn_in.dir = NoDir
    /\ \A i \in 1..Len(FitOnceGrid) : fn_in.kernel[i] = Solved("up", "zero")
    /\ ~fn_out.result.ok


-----------------------------------------------------------------------------
(* compute_residuals and rank_cheap_rich, as app/pipeline.rs calls them *)

(* The observations: finite y_obs (ingest rejects the others), the          *)
(* observation index as id.                                                 *)
ReportPoints(ys) ==
    [i \in 1..Len(ys) |-> [id |-> i, tenor |-> Fin(i), y_obs |-> ys[i]]]

ReportYObs == {Fin(1), Fin(3)}

(* What predict returns for an observation. *)
ReportPredictions == {Fin(0), Fin(1), Fin(3), NaN, PInf}

InitReport ==
    /\ SelIdle
    /\ ParIdle
    /\ pc = "call"
    /\ \E n \in 0..MaxVec :
          \E ys \in [1..n -> ReportYObs], fs \in [1..n -> ReportPredictions],
             top \in 0..MaxTop :
                fn_in = [points |-> ReportPoints(ys), y_fits |-> fs, top_n |-> top]
    /\ fn_out = [residuals |-> None, rankings |-> None]

ReportFrame ==
    /\ UNCHANGED <<points, config, baseline, anchor_baselines, baseline_prior>>
    /\ UNCHANGED <<kinds_left, fits, skipped, outcome>>
    /\ UNCHANGED fm_vars
    /\ UNCHANGED <<slots, workers, done_order, chosen, fn_in>>

(* pipeline.rs line 54: compute_residuals(...)? *)
call_compute_residuals ==
    /\ pc = "call"
    /\ LET r == report_compute_residuals(fn_in.points, fn_in.y_fits)
       IN  /\ fn_out' = [fn_out EXCEPT !.residuals = Some(r)]
           /\ pc' = IF r.ok THEN "residuals" ELSE "failed"
    /\ ReportFrame

(* pipeline.rs line 55. *)
call_rank_cheap_rich ==
    /\ pc = "residuals"
    /\ fn_out' = [fn_out EXCEPT
                     !.rankings = Some(rank_cheap_rich(fn_out.residuals.val.val,
                                                       fn_in.top_n))]
    /\ pc' = "ranked"
    /\ ReportFrame

NextReport == call_compute_residuals \/ call_rank_cheap_rich

SpecReport == InitReport /\ [][NextReport]_vars

(* C19: compute_residuals returns one entry per observation, in input       *)
(* order, with residual = y_obs - y_fit; when a prediction is non-finite it *)
(* returns an error of exit code 4 and no list, not even of the             *)
(* observations before.                                                     *)
C19_ResidualPerObservationOrError ==
    pc \in {"residuals", "failed", "ranked"} =>
        LET r == fn_out.residuals.val
            n == Len(fn_in.points)
        IN  IF \E i \in 1..n : fn_in.y_fits[i].cls # "fin"
            THEN /\ pc = "failed"
                 /\ ~r.ok
                 /\ r.exit_code = 4
                 /\ "val" \notin DOMAIN r
            ELSE /\ r.ok
                 /\ Len(r.val) = n
                 /\ \A i \in 1..n :
                       /\ r.val[i].point = fn_in.points[i]
                       /\ r.val[i].y_fit = fn_in.y_fits[i]
                       /\ r.val[i].residual.cls = "fin"
                       /\ r.val[i].residual.v
                             = fn_in.points[i].y_obs.v - fn_in.y_fits[i].v

(* compute_residuals has failed on a non-finite prediction for the last of  *)
(* three observations, the predictions before being finite.                 *)
C19_Witness ==
    /\ pc = "failed"
    /\ Len(fn_in.points) = 3
    /\ fn_in.y_fits[1].cls = "fin"
    /\ fn_in.y_fits[2].cls = "fin"
    /\ fn_in.y_fits[3].cls # "fin"

(* ranked is sorted (descending or ascending by residual, equal residuals   *)
(* by increasing observation index) and holds the top_n first entries of    *)
(* that order over all the residuals.                                       *)
RankedSide(ranked, descending) ==
    LET all == fn_out.residuals.val.val
        Before(a, b) ==
            \/ IF descending THEN a.residual.v > b.residual.v
               ELSE a.residual.v < b.residual.v
            \/ a.residual.v = b.residual.v /\ a.point.id < b.point.id
        Ids == {ranked[a].point.id : a \in 1..Len(ranked)}
    IN  /\ Len(ranked) = IF fn_in.top_n < Len(all) THEN fn_in.top_n ELSE Len(all)
        /\ \A a \in 1..Len(ranked) : \E i \in 1..Len(all) : ranked[a] = all[i]
        /\ \A a, b \in 1..Len(ranked) : a < b => Before(ranked[a], ranked[b])
        /\ \A i \in 1..Len(all) :
              all[i].point.id \notin Ids =>
                  \A a \in 1..Len(ranked) : Before(ranked[a], all[i])

C21_RankingsSignSeparated ==
    pc = "ranked" =>
        LET rk == fn_out.rankings.val
        IN  /\ \A a \in 1..Len(rk.cheap) : rk.cheap[a].residual.v > 0
            /\ \A a \in 1..Len(rk.rich) : rk.rich[a].residual.v < 0


-----------------------------------------------------------------------------
(* The two layers of weights in fit_model (Spec) *)

InFitModel == pc \in {"pass", "ret"}

(* The working weights are assigned: at the entry of fit_model, from the    *)
(* base weights (line 118), or at the end of a pass of the robust loop,     *)
(* from the base weights and the residuals of the pass (lines 167-169).     *)
WrittenAtEntry ==
    /\ pc = "loop"
    /\ pc' = "pass"
    /\ w_work_real' = w_base'

WrittenByRobustLoop ==
    /\ pc = "pass"
    /\ config.robust = "Huber"
    /\ passes' = passes + 1
    /\ best'.some
    /\ w_work_real' = huber_reweight(w_base,
                          compute_residuals(best'.val, Len(points)),
                          config.robust_k)

(* Every call of fit_once made in a step is handed the working weights as   *)
(* they are before the step.                                                *)
CallsReadWeights ==
    \A i \in (Len(calls) + 1)..Len(calls') : calls'[i].w = w_work_real

(* C23: throughout a fit_model call the observations and the base weights   *)
(* are never modified; the working weights equal the base weights for the   *)
(* first pass, are written only by the robust loop between passes, and are  *)
(* only read by the candidate evaluations of a pass.                        *)
C23_WeightLayers ==
    /\ [](InFitModel =>
             /\ w_base = Weights(points)
             /\ passes = 0 => w_work_real = w_base
             /\ \A i \in 1..Len(calls) : calls[i].pass = 1 => calls[i].w = w_base)
    /\ [][/\ points' = points
          /\ InFitModel => w_base' = w_base
          /\ w_work_real' # w_work_real => WrittenAtEntry \/ WrittenByRobustLoop
          /\ pc = "pass" => CallsReadWeights]_vars

(* The second pass of a robust fit is about to run on working weights that  *)
(* the loop has written, the first pass having run on the base weights.     *)
C23_Witness ==
    /\ pc = "pass"
    /\ passes = 1
    /\ w_work_real # w_base
    /\ calls[1].w = w_base


(* Every working weight lies between 0.001 times its base weight and its    *)
(* base weight.                                                             *)
WorkingWeightsWithinBase ==
    /\ Len(w_work_real) = Len(w_base)
    /\ \A i \in 1..Len(w_base) :
          /\ is_finite(w_work_real[i])
          /\ RLeq(RMul(w_base[i].v, Rat(1, MinFactorInv)), w_work_real[i].v)
          /\ RLeq(w_work_real[i].v, w_base[i].v)

(* The weights a pass leaves are the reweighting of the base weights by the *)
(* residuals of that pass alone.                                            *)
ReweightedFromBase ==
    (pc = "pass" /\ config.robust = "Huber" /\ passes' = passes + 1) =>
        /\ best'.some
        /\ w_work_real' = huber_reweight(w_base,
                              compute_residuals(best'.val, Len(points)),
                              config.robust_k)

(* C27: robust reweighting is always computed from the base weights, not    *)
(* from the previous working weights: after any number of robust passes     *)
(* every working weight lies in [0.001 * w_base, w_base], so downweighting  *)
(* never compounds and never raises a weight above its base value.          *)
C27_ReweightedFromBaseWeights ==
    /\ [](InFitModel => WorkingWeightsWithinBase)
    /\ [][ReweightedFromBase]_vars

(* Two passes in a row have downweighted the first observation: its weight  *)
(* after the second is the one after the first, below the base weight.      *)
C27_Witness ==
    /\ pc = "pass"
    /\ passes = 2
    /\ RLt(calls[2].w[1].v, w_base[1].v)
    /\ w_work_real[1] = calls[2].w[1]


-----------------------------------------------------------------------------
(* fit_model in auto mode: the inference of the short-end direction *)

(* Observations whose slope over the first three tenors, over the first     *)
(* five and over all differ: yields 0, 5, 1 at the tenors 1, 2, 3, then 0,  *)
(* and 10 at the tenor 9; unit weights.                                     *)
KinkPoints(n) ==
    [i \in 1..n |->
        [tenor |-> Fin(i),
         y_obs |-> Fin(CASE i = 2 -> 5 [] i = 3 -> 1 [] i = 9 -> 10 [] OTHER -> 0),
         weight |-> Fin(RInt(1))]]

AutoWindows == {Fin(0), Fin(2), Fin(3), Fin(9)}

AutoInputs ==
    { [points |-> pts, baseline |-> None, anchors |-> None,
       config |-> [BaseConfig EXCEPT
                      !.model_spec = "Ns", !.tau_steps_ns = 2,
                      !.short_end_monotone = "Auto", !.short_end_window = win,
                      !.robust = r.robust, !.robust_iters = r.iters]] :
        pts \in {KinkPoints(9), MkPoints(9, "mixed")},
        win \in AutoWindows, r \in RobustSettings }

InitAuto == InitWith(AutoInputs)

SpecAuto == InitAuto /\ [][NextFitModel]_vars

(* The observations the claim names: those of tenor <= short_end_window     *)
(* when there are at least 3, otherwise the five of shortest tenor.         *)
FrontIdx ==
    {i \in 1..Len(points) : points[i].tenor.v <= config.short_end_window.v}

ShortestFiveIdx ==
    {i \in 1..Len(points) :
        Cardinality({j \in 1..Len(points) :
            \/ points[j].tenor.v < points[i].tenor.v
            \/ points[j].tenor.v = points[i].tenor.v /\ j < i}) < 5}

UsedIdx == IF Cardinality(FrontIdx) >= 3 THEN FrontIdx ELSE ShortestFiveIdx

(* The sign of the slope of the regression of y on t over UsedIdx under the *)
(* weights w: that of sum(w) * sum(w t y) - sum(w t) * sum(w y).            *)
SlopeDir(w) ==
    LET idx == Ascending(UsedIdx)
        T(j) == RInt(points[idx[j]].tenor.v)
        Y(j) == RInt(points[idx[j]].y_obs.v)
        sw == SeqSum([j \in 1..Len(idx) |-> w[idx[j]].v])
        st == SeqSum([j \in 1..Len(idx) |-> RMul(w[idx[j]].v, T(j))])
        sy == SeqSum([j \in 1..Len(idx) |-> RMul(w[idx[j]].v, Y(j))])
        sty == SeqSum([j \in 1..Len(idx) |-> RMul(w[idx[j]].v, RMul(T(j), Y(j)))])
    IN  IF RLeq(RInt(0), RSub(RMul(sw, sty), RMul(st, sy)))
        THEN "Increasing" ELSE "Decreasing"

(* C24: in auto mode the direction is inferred once per fit_model call,     *)
(* before the first pass and from the base weights, over the observations   *)
(* of tenor <= short_end_window when there are at least 3 and otherwise     *)
(* over the five of shortest tenor; later robust passes do not infer it     *)
(* again.                                                                   *)
C24_DirectionInferredOnce ==
    /\ [](InFitModel =>
             /\ monotone_dir = SlopeDir(Weights(points))
             /\ monotone_dir_work \in {monotone_dir, NoDir}
             /\ calls # <<>> => calls[1].dir = monotone_dir
             /\ \A i \in 1..Len(calls) : calls[i].dir \in {monotone_dir, NoDir})
    /\ [][InFitModel => monotone_dir' = monotone_dir]_vars

(* A later robust pass is about to run with the guardrail in the direction  *)
(* inferred at entry (increasing over the three tenors of the window),      *)
(* while the working weights the loop has written would give the other      *)
(* direction.                                                               *)
C24_Witness ==
    /\ pc = "pass"
    /\ passes >= 1
    /\ config.short_end_window = Fin(3)
    /\ monotone_dir_work = "Increasing"
    /\ SlopeDir(w_work_real) = "Decreasing"


-----------------------------------------------------------------------------
(* fit_model with the guardrail on: the passes after a fallback *)

FallbackInputs ==
    { [points |-> MkPoints(9, "ok"), baseline |-> None, anchors |-> None,
       config |-> [BaseConfig EXCEPT
                      !.model_spec = "Ns", !.tau_steps_ns = 2,
                      !.short_end_monotone = mono,
                      !.robust = r.robust, !.robust_iters = r.iters]] :
        mono \in {"Increasing", "Decreasing"}, r \in RobustSettings }

InitFallback == InitWith(FallbackInputs)

(* The pass of fit_model, with what the solves of the pass yielded kept in  *)
(* kernel (a history of the last pass).                                     *)
fit_model_pass_recorded ==
    /\ pc = "pass"
    /\ \E kern \in [1..Len(tau_grid) -> Outcomes] :
          /\ PassWith(kern)
          /\ kernel' = kern
    /\ UNCHANGED <<points, config, baseline, anchor_baselines, baseline_prior>>
    /\ UNCHANGED <<kinds_left, fits, skipped>>
    /\ UNCHANGED <<model, tau_grid, w_base, monotone_dir>>
    /\ UNCHANGED <<slots, workers, done_order, chosen, fn_in, fn_out>>

NextFallback ==
    \/ fit_and_select_begin
    \/ enter_fit_model
    \/ fit_model_pass_recorded
    \/ fit_model_return
    \/ fit_and_select_finish

SpecFallback == InitFallback /\ [][NextFallback]_vars

(* The fallback has fired: a grid search with the guardrail on has failed. *)
FallbackFiredAt(i) == ~calls[i].ok /\ calls[i].dir # NoDir

(* C26: once the monotonicity fallback has fired in a pass of fit_model,    *)
(* the guardrail stays off for every later grid search of the call: it is   *)
(* never switched on again.                                                 *)
C26_GuardrailStaysOff ==
    /\ [](InFitModel =>
             /\ \A i, j \in 1..Len(calls) :
                   (i < j /\ FallbackFiredAt(i)) => calls[j].dir = NoDir
             /\ (\E i \in 1..Len(calls) : FallbackFiredAt(i))
                   => monotone_dir_work = NoDir)
    /\ [][(InFitModel /\ InFitModel' /\ monotone_dir_work = NoDir)
             => monotone_dir_work' = NoDir]_vars

(* fit_model returns, from a second pass made without the guardrail after   *)
(* the fallback of the first pass, a rising curve under a decreasing        *)
(* direction, although a solve of the second pass gave a candidate that     *)
(* passes the guardrail under the working weights of that pass.             *)
C26_Witness ==
    /\ pc = "ret"
    /\ best.some
    /\ passes = 2
    /\ monotone_dir = "Decreasing"
    /\ FallbackFiredAt(1)
    /\ calls[Len(calls)].pass = 2
    /\ calls[Len(calls)].dir = NoDir
    /\ violates_short_end_monotone(best.val.shape, monotone_dir,
                                   config.short_end_window)
    /\ \E i \in 1..Len(kernel) :
          evaluate_candidate(kernel[i], Tenors(points), YObs(points),
                             calls[Len(calls)].w, monotone_dir,
                             config.short_end_window).some


-----------------------------------------------------------------------------
(* The SSE of the fit record under robust fitting (Spec) *)

RobustFit == config.robust = "Huber" /\ config.robust_iters >= 1

(* The weighted SSE of the candidate fit_model holds, under the weights w. *)
BestSseUnder(w) ==
    WeightedSse(compute_residuals(best.val, Len(points)), w).v

-----------------------------------------------------------------------------
(* The FitSelection that fit_and_select returns (Spec) *)

RequestedOrders ==
    {model_kinds(config.model_spec)[i] : i \in 1..Len(model_kinds(config.model_spec))}

(* How many times an order appears in fits and in skipped. *)
TimesFitted(sel, kind) ==
    Cardinality({i \in 1..Len(sel.fits) : sel.fits[i].name = kind})

TimesSkipped(sel, kind) ==
    Cardinality({i \in 1..Len(sel.skipped) : sel.skipped[i].kind = kind})

(* C29: on every successful return of fit_and_select each requested order   *)
(* appears in exactly one of fits and skipped (and once), fits lists the    *)
(* orders in increasing complexity (NS, NSS, NSSC), and best is one of the  *)
(* elements of fits.                                                        *)
C29_SelectionPartitionsOrders ==
    (pc = "done" /\ outcome.ok) =>
        /\ \A kind \in RequestedOrders :
              TimesFitted(outcome, kind) + TimesSkipped(outcome, kind) = 1
        /\ \A i \in 1..Len(outcome.fits) : outcome.fits[i].name \in RequestedOrders
        /\ \A i \in 1..Len(outcome.skipped) : outcome.skipped[i].kind \in RequestedOrders
        /\ \A i, j \in 1..Len(outcome.fits) :
              i < j => param_count(outcome.fits[i].name)
                          < param_count(outcome.fits[j].name)
        /\ \E i \in 1..Len(outcome.fits) : outcome.best = outcome.fits[i]

(* An automatic selection over eleven observations has returned NS and NSS  *)
(* fitted, in that order, NSSC skipped, and NSS as best.                    *)
C29_Witness ==
    /\ pc = "done"
    /\ outcome.ok
    /\ config.model_spec = "Auto"
    /\ Len(outcome.fits) = 2
    /\ outcome.fits[1].name = "Ns"
    /\ outcome.fits[2].name = "Nss"
    /\ Len(outcome.skipped) = 1
    /\ outcome.skipped[1].kind = "Nssc"
    /\ outcome.best = outcome.fits[2]


-----------------------------------------------------------------------------
(* bic on inputs of its own: the same SSE per observation at n and at n + 1 *)

SsePerValues == {RInt(0), Rat(1, 2), RInt(1), RInt(2), RInt(3)}

InitBic ==
    /\ SelIdle
    /\ ParIdle
    /\ pc = "call"
    /\ \E n \in 1..MaxN, s \in SsePerValues, kind \in {"Ns", "Nss", "Nssc"} :
          fn_in = [n |-> n, sse_per |-> s, k |-> param_count(kind)]
    /\ fn_out = <<>>

(* to_fit_result line 226, for n and for n + 1 observations. *)
call_bic ==
    /\ pc \in {"call", "next_n"}
    /\ LET n == IF pc = "call" THEN fn_in.n ELSE fn_in.n + 1
       IN  fn_out' = Append(fn_out, bic(n, RMul(fn_in.sse_per, RInt(n)), fn_in.k))
    /\ pc' = IF pc = "call" THEN "next_n" ELSE "returned"
    /\ UNCHANGED <<points, config, baseline, anchor_baselines, baseline_prior>>
    /\ UNCHANGED <<kinds_left, fits, skipped, outcome>>
    /\ UNCHANGED fm_vars
    /\ UNCHANGED <<slots, workers, done_order, chosen, fn_in>>

NextBic == call_bic

SpecBic == InitBic /\ [][NextBic]_vars

(* C22: for fixed SSE/n and fixed k, BIC is strictly increasing in n, for   *)
(* all n >= 1.                                                              *)
C22_BicIncreasingInN ==
    pc = "returned" => fn_out[1] < fn_out[2]

(* C22 as the code has it: BIC is strictly increasing in n when SSE/n >= 1  *)
(* (the logarithm is not negative) and strictly decreasing in n when SSE/n  *)
(* is at the floor 1e-12, for k one of the parameter counts 4, 6, 8.        *)
C22_BicIncreasingAboveOne ==
    pc = "returned" =>
        /\ RLeq(RInt(1), fn_in.sse_per) => fn_out[1] < fn_out[2]
        /\ fn_in.sse_per.n <= 0 => fn_out[2] < fn_out[1]

(* BIC at SSE/n = 1 for 1 and 2 observations: 0 and k * ln(2). *)
C22_Witness ==
    /\ pc = "returned"
    /\ fn_in.n = 1
    /\ fn_in.sse_per = RInt(1)
    /\ fn_out[1] = 0
    /\ fn_out[2] = fn_in.k * LnTable[2]


-----------------------------------------------------------------------------
(* The terminal UI (tui/mod.rs): App::new, then one handle_key per key      *)
(* press.  fn_in holds the arguments, fn_out the App (screen and status).   *)
(* Paths found by a directory scan are 1..MaxFiles; 0 is the path of -f.    *)
(* Drawing is the widget library's: it reads files and the list state, and  *)
(* handle_key reads the selection through selected().unwrap_or(0).          *)

TuiArgs ==
    { [csv |-> c, model |-> m, front_end_mode |-> f,
       front_end_value |-> (f = "Fixed"), short_end_monotone |-> "Auto",
       robust |-> "Huber", export |-> e] :
         c \in BOOLEAN, m \in {"Auto", "All"}, f \in {"Off", "Fixed"},
         e \in BOOLEAN }

KeyCodes == {"q", "Up", "Down", "Enter", "b", "r", "a", "s", "u", "m", "e", "x"}

RECURSIVE PathsInOrder(_)
PathsInOrder(S) ==
    IF S = {} THEN <<>>
    ELSE LET first == CHOOSE p \in S : \A q \in S : p <= q
         IN  <<first>> \o PathsInOrder(S \ {first})

(* picker.rs 115-124: the CSV files under the current directory, sorted;    *)
(* every call scans the directory anew.                                     *)
discover_csv_files == {PathsInOrder(S) : S \in SUBSET (1..MaxFiles)}

(* app.rs 167-205, the fields the UI changes or reads *)
fit_config_from_args(args, csv_path) ==
    [csv_path |-> csv_path, model_spec |-> args.model,
     front_end_mode |-> args.front_end_mode,
     front_end_value |-> args.front_end_value,
     short_end_monotone |-> args.short_end_monotone,
     robust |-> args.robust, export |-> args.export]

list_state(selected) == Some(selected)

selected_unwrap_or_zero(state) == IF state.some THEN state.val ELSE 0

saturating_sub(a, b) == IF a >= b THEN a - b ELSE 0

next_model_spec(cur) ==
    CASE cur = "Auto" -> "Ns"
      [] cur = "Ns"   -> "Nss"
      [] cur = "Nss"  -> "Nssc"
      [] cur = "Nssc" -> "Auto"
      [] cur = "All"  -> "Auto"

next_front_end_mode(cur) ==
    CASE cur = "Off"   -> "Auto"
      [] cur = "Auto"  -> "Zero"
      [] cur = "Zero"  -> "Off"
      [] cur = "Fixed" -> "Off"

next_short_end_monotone(cur) ==
    CASE cur = "Auto"       -> "None"
      [] cur = "None"       -> "Increasing"
      [] cur = "Increasing" -> "Decreasing"
      [] cur = "Decreasing" -> "Auto"

PickerScreen(files, state) == [kind |-> "Picker", files |-> files, state |-> state]

ResultsScreen(cfg) == [kind |-> "Results", config |-> cfg]

TuiFrame ==
    /\ UNCHANGED <<points, config, baseline, anchor_baselines, baseline_prior>>
    /\ UNCHANGED <<kinds_left, fits, skipped, outcome>>
    /\ UNCHANGED fm_vars
    /\ UNCHANGED <<slots, workers, done_order, chosen, fn_in>>

InitTui ==
    /\ SelIdle
    /\ ParIdle
    /\ pc = "new"
    /\ fn_in \in TuiArgs
    /\ fn_out = <<>>

(* App::new, lines 104-133 *)
App_new ==
    /\ pc = "new"
    /\ IF fn_in.csv
       THEN \E loaded \in BOOLEAN :
               IF loaded
               THEN /\ fn_out' = [screen |-> ResultsScreen(fit_config_from_args(fn_in, 0)),
                                  status |-> "Loaded file from -f/--file."]
                    /\ pc' = "loop"
               ELSE /\ pc' = "error"
                    /\ UNCHANGED fn_out
       ELSE \E files \in discover_csv_files :
               IF files = <<>>
               THEN /\ pc' = "error"
                    /\ UNCHANGED fn_out
               ELSE /\ fn_out' = [screen |-> PickerScreen(files, list_state(0)),
                                  status |-> "Select a CSV and press Enter."]
                    /\ pc' = "loop"
    /\ TuiFrame

(* load_results, lines 286-293: an error leaves the App as it was *)
load_results(csv_path) ==
    \E loaded \in BOOLEAN :
       IF loaded
       THEN /\ fn_out' = [screen |-> ResultsScreen(fit_config_from_args(fn_in, csv_path)),
                          status |-> "Loaded"]
            /\ pc' = "loop"
       ELSE /\ pc' = "error"
            /\ UNCHANGED fn_out

(* results.config is already changed when run_fit(&results.config)? runs *)
Refit(cfg, status) ==
    \E fitted \in BOOLEAN :
       /\ fn_out' = [screen |-> ResultsScreen(cfg),
                     status |-> IF fitted THEN status ELSE fn_out.status]
       /\ pc' = IF fitted THEN "loop" ELSE "error"

(* the Screen::Picker arm, lines 177-194 *)
PickerKey(code) ==
    LET picker == fn_out.screen
        cur    == selected_unwrap_or_zero(picker.state)
    IN  CASE code = "q" ->
                /\ pc' = "exit"
                /\ UNCHANGED fn_out
          [] code = "Up" ->
                /\ fn_out' = [fn_out EXCEPT !.screen.state = Some(saturating_sub(cur, 1))]
                /\ pc' = "loop"
          [] code = "Down" ->
                /\ LET last == saturating_sub(Len(picker.files), 1)
                       next == IF cur + 1 <= last THEN cur + 1 ELSE last
                   IN  fn_out' = [fn_out EXCEPT !.screen.state = Some(next)]
                /\ pc' = "loop"
          [] code = "Enter" ->
                IF cur < Len(picker.files)
                THEN load_results(picker.files[cur + 1])
                ELSE /\ pc' = "panic"
                     /\ UNCHANGED fn_out
          [] OTHER ->
                /\ pc' = "loop"
                /\ UNCHANGED fn_out

(* the Screen::Results arm, lines 195-281 *)
ResultsKey(code) ==
    LET cfg == fn_out.screen.config
    IN  CASE code = "q" ->
                /\ pc' = "exit"
                /\ UNCHANGED fn_out
          [] code = "b" ->
                \E files \in discover_csv_files :
                   /\ fn_out' = [screen |-> PickerScreen(files, list_state(0)),
                                 status |-> "Select a CSV and press Enter."]
                   /\ pc' = "loop"
          [] code = "r" -> Refit(cfg, "Refit completed.")
          [] code = "a" ->
                Refit([cfg EXCEPT !.front_end_mode = next_front_end_mode(@),
                                  !.front_end_value = FALSE],
                      "front_end")
          [] code = "s" ->
                Refit([cfg EXCEPT !.short_end_monotone = next_short_end_monotone(@)],
                      "short_end_monotone")
          [] code = "u" ->
                Refit([cfg EXCEPT !.robust = IF @ = "None" THEN "Huber" ELSE "None"],
                      "robust")
          [] code = "m" ->
                Refit([cfg EXCEPT !.model_spec = next_model_spec(@)], "Model set")
          [] code = "e" ->
                IF ~cfg.export
                THEN /\ fn_out' = [fn_out EXCEPT !.status =
                          "No export paths configured. Use --export and/or --export-curve."]
                     /\ pc' = "loop"
                ELSE \E written \in BOOLEAN :
                        /\ fn_out' = [fn_out EXCEPT !.status =
                              IF written THEN "Exported results." ELSE @]
                        /\ pc' = IF written THEN "loop" ELSE "error"
          [] OTHER ->
                /\ pc' = "loop"
                /\ UNCHANGED fn_out

(* App::handle_key, lines 175-284 *)
handle_key(code) ==
    /\ pc = "loop"
    /\ IF fn_out.screen.kind = "Picker" THEN PickerKey(code) ELSE ResultsKey(code)
    /\ TuiFrame

NextTui ==
    \/ App_new
    \/ \E code \in KeyCodes : handle_key(code)

SpecTui == InitTui /\ [][NextTui]_vars

(* C30: in the file picker the selected index is always a valid index into  *)
(* the file list, so pressing Enter never indexes out of bounds.            *)
C30_PickerSelectionValid ==
    /\ pc # "panic"
    /\ (pc = "loop" /\ fn_out.screen.kind = "Picker") =>
           selected_unwrap_or_zero(fn_out.screen.state) < Len(fn_out.screen.files)

=============================================================================
